---- MODULE Spec2Model ----
(***************************************************************************)
(* The tool-augmented agent loop of Claude Predict:                        *)
(*   - the tool registry and dispatcher (tools/index.js: toolExecutors,    *)
(*     executeTool),                                                       *)
(*   - the slash commands (slash-commands.js: handleSlashCommand),         *)
(*   - the conversation loop (ClaudePredictAgent.run / chat /              *)
(*     executeTools), specified by Spec and FairSpec,                      *)
(*   - the stream handler (ClaudePredictAgent.handleStream), specified on  *)
(*     its own by StreamSpec: in Spec a model call is one step that ends   *)
(*     in the message handleStream returns,                                *)
(*   - the PNPFUCIUS prompt loop and its slash commands                    *)
(*     (PnpfuciusAgent.run / executeTool, predict/slash-commands.js),      *)
(*     specified by PnpSpec,                                               *)
(*   - the run_command tool (executeBashTool), specified on its own by     *)
(*     BashSpec and FairBashSpec: in Spec an executor call is one pending  *)
(*     step that ends in what the executor returned or threw,              *)
(*   - the score cache of AIScorer (ai/scorer.js), specified by            *)
(*     ScorerSpec for one caller that awaits each call,                    *)
(*   - PrivacyOracleAgent.createBatchMarkets (agent.js), specified by      *)
(*     BatchSpec.                                                          *)
(* The interrupt is the SIGINT event of the readline interface, which is   *)
(* what run handles. spawn is taken to return a child process and to       *)
(* accept the timeout option it is given.                                  *)
(* External collaborators are inputs of the model: the language-model      *)
(* provider (what a call returns or throws, the events it streams and the  *)
(* message the SDK finalizes from them), the tool executors (what one      *)
(* returns or throws, and how long it takes) and the user (what is typed). *)
(* Tool results are taken to be JSON-serializable, as the executor         *)
(* contract says, and a thrown value to be an Error with a message.        *)
(***************************************************************************)
EXTENDS Integers, Sequences, FiniteSets, TLC

VARIABLES
    messages,     \* this.messages: the conversation history
    pc,           \* where run/chat stands: Idle, AwaitingModel, Cooldown,
                  \* Dispatching, ToolRunning, Exited, and
                  \* ConstructorThrew when there is no agent to run
    response,     \* the finalized message whose content executeTools walks
    blockIdx,     \* executeTools: index of the next block of the for-loop
    results,      \* executeTools: the results array built so far
    running,      \* the executor call executeTool is awaiting, if any
    reported,     \* what run printed with printError since it last read a line
    failedCall,   \* the history the last rate-limited model call was issued with
    notices,      \* what the current step of the loop printed and called
    DEBUG,        \* process.env.DEBUG is set
    userMessage,  \* chat: its argument while a call is under way
    events,       \* handleStream: the events of the stream it iterates
    eventIdx,     \* handleStream: the place of the next event, 0 when idle
    currentToolUse, \* handleStream: let currentToolUse
    toolInput,    \* handleStream: let toolInput
    firstText,    \* handleStream: let firstText
    stdout,       \* handleStream: what it has written with process.stdout.write
    returned,     \* handleStream: the finalized message it returned
    anthropicApiKey, \* config.anthropicApiKey as the constructor reads it
    agentPc,      \* PnpfuciusAgent.run: Idle, ToolRunning, Exited
    printed,      \* PnpfuciusAgent: what the loop iteration under way printed
    toolCall,     \* PnpfuciusAgent.executeTool: the dispatcher call it awaits
    bashInput,    \* executeBashTool: its input
    proc,         \* executeBashTool: the child process spawn returned
    procStdout,   \* executeBashTool: let stdout
    procStderr,   \* executeBashTool: let stderr
    timer,        \* executeBashTool: the timer setTimeout armed
    settled,      \* executeBashTool: what the promise it returned settled with
    cache,        \* AIScorer: this.cache, a Map from key to scored result
    scoring,      \* AIScorer.scoreNews: the model call it awaits, if any
    scored,       \* AIScorer.scoreNews: how the last call that ended ended
    scoreClock,   \* Date.now(), as the number of scorings made so far
    ideas,        \* createBatchMarkets: const ideas
    ideaIdx,      \* createBatchMarkets: the place of the for-loop in ideas
    batchResults, \* createBatchMarkets: const results
    batchPc       \* createBatchMarkets: Creating, Sleeping, Returned

handlerVars == <<events, eventIdx, currentToolUse, toolInput, firstText,
                 stdout, returned>>

pnpVars == <<agentPc, printed, toolCall>>

bashVars == <<bashInput, proc, procStdout, procStderr, timer, settled>>

scorerVars == <<cache, scoring, scored, scoreClock>>

batchVars == <<ideas, ideaIdx, batchResults, batchPc>>

\* What no step of the conversation loop changes: the configuration the agent
\* was constructed with and the variables of the other specifications
loopFrame == <<anthropicApiKey, handlerVars, pnpVars, bashVars, scorerVars,
               batchVars>>

vars == <<messages, pc, response, blockIdx, results, running, reported,
          failedCall, notices, DEBUG, userMessage, loopFrame>>

----------------------------------------------------------------------------
(* Bounds of the model *)

\* messages the history may hold; a turn is started, and tools are asked
\* for, only while the messages that follow still fit
MaxMessages == 5

\* error.status === 429
RateLimitStatus == 429

----------------------------------------------------------------------------
(* Values *)

Undefined == "undefined"

\* Date.now() readings and the time an executor takes
ClockValues == {0, 5}
ElapsedValues == {1}

\* error.message of a value thrown by an executor
ExecutorErrorMessages == {"boom"}

\* A JavaScript object of the dispatcher, as the set of its own keys and the
\* values of the keys the dispatcher itself writes. Keys written by a tool
\* executor carry no modelled value.
NoMeta == [tool |-> "", duration_ms |-> 0]
EmptyObject ==
    [keys |-> {}, error |-> "", _meta |-> NoMeta, available_tools |-> {},
     tool |-> "", stack |-> ""]

\* Keys of the result envelope that executeTool writes itself
DispatcherKeys == {"error", "_meta", "available_tools", "tool", "stack"}

----------------------------------------------------------------------------
(* Tool registry and dispatcher: tools/index.js *)

\* const toolExecutors = { ... }: own keys and the executor each is bound to
toolExecutors ==
    [n \in {"generate_market", "create_market", "list_markets",
            "get_market_info", "check_resolution", "buy_tokens", "sell_tokens",
            "get_market_prices", "get_balances", "redeem_position",
            "claim_refund", "create_market_from_source"}
        |-> "executeMarketTool"]
    @@ [n \in {"score_news", "fetch_news", "generate_from_news"}
        |-> "executeNewsTool"]
    @@ [n \in {"get_stats", "get_categories"} |-> "executeAnalyticsTool"]
    @@ [n \in {"read_file", "write_file", "list_files"} |-> "executeFileTool"]
    @@ [n \in {"run_command"} |-> "executeBashTool"]

\* Variant: executeMarketTool as it was with five tools
Cases_FiveMarketTools(fn) ==
    CASE fn = "executeMarketTool" ->
            {"generate_market", "create_market", "list_markets",
             "get_market_info", "check_resolution"}
      [] fn = "executeNewsTool" ->
            {"score_news", "fetch_news", "generate_from_news"}
      [] fn = "executeAnalyticsTool" -> {"get_stats", "get_categories"}
      [] fn = "executeFileTool" -> {"read_file", "write_file", "list_files"}
      [] fn = "executeBashTool" -> {"run_command"}
      [] OTHER -> {}

\* The names each executor has code for: the case labels of its
\* switch (name), and for executeBashTool the one name it does not turn
\* away with if (name !== 'run_command'). Any other name gets the
\* executor's 'Unknown ... tool' result.
Cases(fn) ==
    CASE fn = "executeMarketTool" ->
            {"generate_market", "create_market", "list_markets",
             "get_market_info", "check_resolution", "buy_tokens",
             "sell_tokens", "get_market_prices", "get_balances",
             "redeem_position", "claim_refund", "create_market_from_source"}
      [] fn = "executeNewsTool" ->
            {"score_news", "fetch_news", "generate_from_news"}
      [] fn = "executeAnalyticsTool" -> {"get_stats", "get_categories"}
      [] fn = "executeFileTool" -> {"read_file", "write_file", "list_files"}
      [] fn = "executeBashTool" -> {"run_command"}
      [] OTHER -> {}

\* Whether executor fn, called for name, runs code of its own for that tool
ReachesBranch(fn, name) == name \in Cases(fn)

\* docs/new_features.md, Total Tools (21)
DocumentedTools ==
    {"generate_market", "create_market", "list_markets", "get_market_info",
     "check_resolution", "buy_tokens", "sell_tokens", "get_market_prices",
     "get_balances", "redeem_position", "claim_refund",
     "create_market_from_source",
     "score_news", "fetch_news", "generate_from_news",
     "get_stats", "get_categories",
     "read_file", "write_file", "list_files",
     "run_command"}

\* The names of the tool definitions, array by array, in source order
marketToolDefinitions ==
    <<"generate_market", "create_market", "list_markets", "get_market_info",
      "check_resolution", "buy_tokens", "sell_tokens", "get_market_prices",
      "get_balances", "redeem_position", "claim_refund",
      "create_market_from_source">>
newsToolDefinitions == <<"score_news", "fetch_news", "generate_from_news">>
analyticsToolDefinitions == <<"get_stats", "get_categories">>
fileToolDefinitions == <<"read_file", "write_file", "list_files">>
bashToolDefinition == "run_command"

\* Variant: the list ends with the bash tool twice
tools_BashTwice ==
    marketToolDefinitions \o newsToolDefinitions \o analyticsToolDefinitions
        \o fileToolDefinitions \o <<bashToolDefinition, bashToolDefinition>>

\* export const tools = [...marketToolDefinitions, ...newsToolDefinitions,
\*     ...analyticsToolDefinitions, ...fileToolDefinitions, bashToolDefinition]
tools ==
    marketToolDefinitions \o newsToolDefinitions \o analyticsToolDefinitions
        \o fileToolDefinitions \o <<bashToolDefinition>>

\* toolExecutors is an object literal: a property read that misses its own
\* keys goes on to Object.prototype. Of its members, constructor and toString
\* are functions that return a string when called as executor(name, input);
\* __proto__ is the prototype object itself, which is not callable.
PrototypeFunctions == {"constructor", "toString"}
PrototypeObjects == {"__proto__"}

\* Object.keys(toolExecutors)
ObjectKeys == DOMAIN toolExecutors

\* const executor = toolExecutors[name]
Lookup(name) ==
    IF name \in DOMAIN toolExecutors
    THEN [kind |-> "executor", fn |-> toolExecutors[name]]
    ELSE IF name \in PrototypeFunctions
    THEN [kind |-> "inherited_function", fn |-> name]
    ELSE IF name \in PrototypeObjects
    THEN [kind |-> "inherited_object", fn |-> name]
    ELSE [kind |-> "undefined", fn |-> Undefined]

\* if (!executor): only undefined is falsy among the values a lookup yields
Falsy(executor) == executor.kind = "undefined"

Object(keys) == [EmptyObject EXCEPT !.keys = keys]
ErrorObject(keys, msg) == [EmptyObject EXCEPT !.keys = keys, !.error = msg]

\* What executor(name, input) may return, per tool, from the executors' code
ExecutorReturnValues(executor, name) ==
    CASE executor.kind = "inherited_function" ->
            \* Object(name, input), toString(): a string, whose spread gives
            \* its characters under index keys "0", "1", "2", ...
            {Object({"0", "1", "2"})}
      [] executor.kind = "inherited_object" -> {}
      [] executor.fn = "executeBashTool" ->
            {Object({"command", "exit_code", "stdout", "stderr", "success"}),
             ErrorObject({"command", "error", "success"}, "Command timed out")}
      [] executor.fn = "executeFileTool" ->
            {Object({"path", "content", "size", "lines"}),
             ErrorObject({"error"}, "File not found")}
      [] executor.fn = "executeMarketTool" /\ name = "create_market" ->
            {Object({"success", "market", "signature", "question",
                     "duration_days", "liquidity_usdc", "type", "network"})}
      [] OTHER -> {Object({"data"})}

\* The messages of what executor(name, input) may throw or reject with
ExecutorThrownMessages(executor, name) ==
    IF executor.kind = "inherited_function" THEN {}
    ELSE IF executor.kind = "inherited_object"
    THEN {"executor is not a function"}
    ELSE ExecutorErrorMessages

\* return { error: `Unknown tool: ${name}`, available_tools: Object.keys(toolExecutors) }
UnknownToolResult(name) ==
    [EmptyObject EXCEPT !.keys = {"error", "available_tools"},
                        !.error = "Unknown tool: " \o name,
                        !.available_tools = ObjectKeys]

\* const duration = Date.now() - startTime
Duration(startTime, endTime) == endTime - startTime

\* return { ...result, _meta: { tool: name, duration_ms: duration } }
SuccessResult(name, result, startTime, endTime) ==
    [result EXCEPT !.keys = result.keys \cup {"_meta"},
                   !._meta = [tool |-> name,
                              duration_ms |-> Duration(startTime, endTime)]]

\* Faulty variant of FailureResult: the failure message is not copied into
\* the result
FailureResult_NoError(name, message, debug) ==
    [EmptyObject EXCEPT !.keys = {"stack", "tool"},
                        !.stack = IF debug THEN "stack trace" ELSE Undefined,
                        !.tool = name]

\* Faulty variant of FailureResult: the result also reports a success flag,
\* a field of the tools' own result shapes
FailureResult_WithSuccess(name, message, debug) ==
    [EmptyObject EXCEPT !.keys = {"error", "stack", "tool", "success"},
                        !.error = message,
                        !.stack = IF debug THEN "stack trace" ELSE Undefined,
                        !.tool = name]

\* catch (error): return { error: error.message,
\*                         stack: process.env.DEBUG ? error.stack : undefined,
\*                         tool: name }
FailureResult(name, message, debug) ==
    [EmptyObject EXCEPT !.keys = {"error", "stack", "tool"},
                        !.error = message,
                        !.stack = IF debug THEN "stack trace" ELSE Undefined,
                        !.tool = name]

\* JSON.stringify(result, null, 2): the text of the object, in which a key
\* whose value is undefined does not appear. The text is modelled by the
\* object it denotes.
JSONStringify(result) ==
    [result EXCEPT !.keys =
        {k \in result.keys : ~(k = "stack" /\ result.stack = Undefined)}]

----------------------------------------------------------------------------
(* Messages and content blocks *)

\* { role, content } with a string content (what chat pushes for user input)
StringMessage(role, text) ==
    [role |-> role, isString |-> TRUE, text |-> text, content |-> <<>>]

\* { role, content } with an array of content blocks
BlockMessage(role, content) ==
    [role |-> role, isString |-> FALSE, text |-> <<>>, content |-> content]

\* The text of a tool input the model streams, as its tokens: the braces,
\* the members and the commas between them; and the same text cut short
\* before its closing brace
InputJson == <<"{", "\"question\":\"Q\"", ",", "\"duration_days\":30", "}">>
CutInputJson == <<"{", "\"question\":\"Q\"", ",">>

\* Whether a text is a JSON object of the kind above
IsJsonObject(text) ==
    /\ Len(text) >= 2
    /\ text[1] = "{" /\ text[Len(text)] = "}"
    /\ \A i \in 2..(Len(text) - 1) :
        IF i % 2 = 0 THEN text[i] \notin {"{", "}", ","}
        ELSE text[i] = "," /\ i < Len(text) - 1

\* The value a tool_use block's input gets from its streamed text: the
\* object with the members of the text when the text is a JSON object;
\* otherwise what could be read of it, marked incomplete
JsonParse(text) ==
    [complete |-> IsJsonObject(text),
     members |-> {text[i] : i \in 1..Len(text)} \ {"{", "}", ","}]

TextBlock == [type |-> "text", text |-> "some text"]
ToolUseBlock(id, name, input) ==
    [type |-> "tool_use", id |-> id, name |-> name, input |-> input]

\* results.push({ type: 'tool_result', tool_use_id: block.id,
\*                content: JSON.stringify(result, null, 2) })
ToolResultBlock(block, result) ==
    [type |-> "tool_result", tool_use_id |-> block.id,
     content |-> JSONStringify(result)]

\* A block of a finalized message, as the provider plans it: a text block,
\* a tool_use block with a complete input text, or one whose input text
\* was cut short
Txt == [name |-> "text", json |-> <<>>]
Use(name) == [name |-> name, json |-> InputJson]
Cut(name) == [name |-> name, json |-> CutInputJson]

\* The blocks of the finalized messages the provider may return. The names
\* asked for are registered tools, a name that is no property of
\* toolExecutors at all, and names toolExecutors inherits
ResponseShapes ==
    {<<Txt>>,
     <<Use("create_market")>>,
     <<Txt, Use("read_file")>>,
     <<Use("run_command"), Use("create_market")>>,
     <<Use("no_such_tool"), Use("read_file")>>,
     <<Use("constructor")>>,
     <<Use("__proto__"), Use("create_market")>>,
     <<Cut("read_file")>>}

IsToolUse(block) == block.type = "tool_use"

HasToolUse(content) == \E i \in 1..Len(content) : content[i].type = "tool_use"

\* stop_reason of a finalized message: tool_use only with a tool_use block,
\* end_turn only without one, max_tokens for a message cut at the token limit
\* the call sets (max_tokens: 16000); the last block of a cut message may be
\* a tool_use block
StopReasons(content) ==
    IF HasToolUse(content) THEN {"tool_use", "max_tokens"}
    ELSE {"end_turn", "max_tokens"}

\* The content the provider builds for a shape; tool_use ids are fresh: the
\* place of the message in the history and the place of the block in it
ContentOf(shape, serial) ==
    [i \in 1..Len(shape) |->
        IF shape[i].name = "text" THEN TextBlock
        ELSE ToolUseBlock(<<serial, i>>, shape[i].name,
                          JsonParse(shape[i].json))]

\* What a failed model call throws: an API error with an HTTP status, or a
\* connection error without one
ProviderErrors ==
    {[hasStatus |-> TRUE, status |-> 429, code |-> Undefined,
      message |-> "rate_limit_error"],
     [hasStatus |-> TRUE, status |-> 500, code |-> Undefined,
      message |-> "api_error"],
     [hasStatus |-> FALSE, status |-> 0, code |-> "ECONNRESET",
      message |-> "Connection error."]}

NoResponse == [content |-> <<>>, stop_reason |-> "none"]
NotRunning == [active |-> FALSE, index |-> 0, startTime |-> 0]
NoFailedCall == [pending |-> FALSE, history |-> <<>>]

\* handleStream is not running: its locals as declared (part_003:339-341)
HandlerIdle ==
    /\ events = <<>>
    /\ eventIdx = 0
    /\ currentToolUse = "null"
    /\ toolInput = <<>>
    /\ firstText = TRUE
    /\ stdout = <<>>
    /\ returned = NoResponse

\* ClaudePredictAgent is not in a turn
LoopIdle ==
    /\ messages = <<>>
    /\ pc = "Idle"
    /\ response = NoResponse
    /\ blockIdx = 0
    /\ results = <<>>
    /\ running = NotRunning
    /\ reported = "nothing"
    /\ failedCall = NoFailedCall
    /\ notices = <<>>
    /\ userMessage = <<>>

\* PnpfuciusAgent is not running
NoToolCall == [active |-> FALSE, name |-> "", input |-> {}, startTime |-> 0]
PnpIdle ==
    /\ agentPc = "Idle"
    /\ printed = <<>>
    /\ toolCall = NoToolCall

\* executeBashTool is not running
NoResult ==
    [keys |-> {}, command |-> "", exit_code |-> Undefined, stdout |-> <<>>,
     stderr |-> <<>>, error |-> Undefined, success |-> FALSE]
Pending == [state |-> "pending", value |-> NoResult]
NoBashInput == [command |-> "", hasTimeout |-> FALSE, timeout |-> 0]
NoProcess == [state |-> "none", signalled |-> FALSE]
NoTimer == [state |-> "none", delay |-> 0]
BashIdle ==
    /\ bashInput = NoBashInput
    /\ proc = NoProcess
    /\ procStdout = <<>>
    /\ procStderr = <<>>
    /\ timer = NoTimer
    /\ settled = Pending

\* No AIScorer has scored anything
EmptyCache == [key \in {} |-> 0]
NotScoring == [active |-> FALSE, title |-> <<>>]
NoScored ==
    [kind |-> "none", title |-> <<>>, fromCache |-> FALSE,
     value |-> [score |-> "", title |-> <<>>, scoredAt |-> 0]]
ScorerIdle ==
    /\ cache = EmptyCache
    /\ scoring = NotScoring
    /\ scored = NoScored
    /\ scoreClock = 0

\* createBatchMarkets has not been called
BatchIdle ==
    /\ ideas = <<>>
    /\ ideaIdx = 0
    /\ batchResults = <<>>
    /\ batchPc = "Idle"

----------------------------------------------------------------------------
(* Slash commands: handleSlashCommand (slash-commands.js of Claude Predict) *)

\* A line of text is the sequence of its tokens: the single characters " "
\* and "/" and words, a word holding neither of the two. Lines the user may
\* type at the prompt:
Lines ==
    {<<" ", "hello">>,
     <<" ">>,
     <<"/", "clear">>,
     <<" ", "/", "Clear">>,
     <<"/", "exit">>,
     <<"/", "help">>,
     <<"/", "h">>,
     <<"/", "?">>,
     <<"/", "frobnicate">>,
     <<"/", "create", " ", "Q">>}

\* String.prototype.trim
RECURSIVE TrimStart(_)
TrimStart(text) ==
    IF text # <<>> /\ Head(text) = " " THEN TrimStart(Tail(text)) ELSE text

RECURSIVE TrimEnd(_)
TrimEnd(text) ==
    IF text # <<>> /\ text[Len(text)] = " "
    THEN TrimEnd(SubSeq(text, 1, Len(text) - 1))
    ELSE text

Trim(text) == TrimEnd(TrimStart(text))

\* trimmed.startsWith('/')
StartsWith(text, token) == text # <<>> /\ Head(text) = token

\* The string a run of tokens spells
RECURSIVE Spell(_)
Spell(tokens) ==
    IF tokens = <<>> THEN "" ELSE Head(tokens) \o Spell(Tail(tokens))

\* String.prototype.split(' '): the fields between the spaces, "" for an
\* empty field
RECURSIVE Split(_)
Split(text) ==
    LET spaces == {i \in 1..Len(text) : text[i] = " "} IN
    IF spaces = {} THEN <<Spell(text)>>
    ELSE LET k == CHOOSE i \in spaces : \A j \in spaces : i <= j IN
         <<Spell(SubSeq(text, 1, k - 1))>>
             \o Split(SubSeq(text, k + 1, Len(text)))

\* Array.prototype.join(' '), as tokens
RECURSIVE Join(_)
Join(args) ==
    IF args = <<>> THEN <<>>
    ELSE IF Len(args) = 1 THEN <<Head(args)>>
    ELSE <<Head(args), " ">> \o Join(Tail(args))

\* String.prototype.toLowerCase on the words of Lines
ToLowerCase(word) ==
    CASE word = "Clear" -> "clear"
      [] word = "ZK" -> "zk"
      [] word = "GDPR" -> "gdpr"
      [] OTHER -> word

\* args[0]: undefined when there is no argument
FirstArg(args) == IF args = <<>> THEN Undefined ELSE Head(args)

\* parseInt(word) || fallback: the decimal numeral of a positive number, the
\* fallback for NaN and for 0
Numerals == {"1", "2", "3", "4", "5", "6", "7", "8", "9"}
ParseIntOr(word, fallback) == IF word \in Numerals THEN word ELSE fallback

\* word || fallback
WordOr(word, fallback) ==
    IF word = Undefined \/ word = "" THEN fallback ELSE word

\* What a call of handleSlashCommand does: what it returns ("false", "true",
\* "string" with the prompt, or "exit" when process.exit ends it) and what it
\* prints and calls on the way, in order
NotACommand == [returns |-> "false", prompt |-> <<>>, calls |-> <<>>]
Handled_NotACommand(calls) == NotACommand
Handled(calls) == [returns |-> "true", prompt |-> <<>>, calls |-> calls]
Forward(prompt) == [returns |-> "string", prompt |-> prompt, calls |-> <<>>]
Exit(calls) == [returns |-> "exit", prompt |-> <<>>, calls |-> calls]

\* The case labels of the switch
RecognizedCommands ==
    {"help", "h", "?", "exit", "quit", "q", "clear", "cls", "config",
     "generate", "gen", "create", "stats", "news", "markets", "list",
     "categories", "cats", "score", "tools"}

\* const [command, ...args] = trimmed.slice(1).split(' ')
CommandWord(trimmed) == Head(Split(Tail(trimmed)))

\* Variant: an unrecognized command word is not a command
UnknownCommand_NotACommand(command) == NotACommand

\* default: console.log(`Unknown command: /${command}`); console.log(hint);
\* return true
UnknownCommand(command) ==
    Handled(<<<<"console.log", "Unknown command: /" \o command>>,
              <<"console.log", "Type /help for available commands.">>>>)

handleSlashCommand(input) ==
    LET trimmed == Trim(input) IN
    IF ~StartsWith(trimmed, "/") THEN NotACommand
    ELSE
    LET parts == Split(Tail(trimmed))
        command == ToLowerCase(Head(parts))
        args == Tail(parts)
        argString == Join(args)
    IN
    CASE command \in {"help", "h", "?"} ->
            Handled(<<<<"printHelp", "">>>>)
      [] command \in {"exit", "quit", "q"} ->
            Exit(<<<<"printGoodbye", "">>, <<"process.exit", "0">>>>)
      [] command \in {"clear", "cls"} ->
            Handled(<<<<"printWelcome", "">>, <<"clearHistory", "">>>>)
      [] command = "config" ->
            Handled(<<<<"showConfig", "">>>>)
      [] command \in {"generate", "gen"} ->
            Forward(<<"Generate ", ParseIntOr(FirstArg(args), "3"),
                      " privacy-themed prediction market ideas. Be creative and focus on current events.">>)
      [] command = "create" ->
            IF Spell(argString) # ""
            THEN Forward(<<"Create a prediction market with the question: \"">>
                         \o argString \o <<"\"">>)
            ELSE Forward(<<"Help me create a new prediction market. Ask me what topic I want to create a market about.">>)
      [] command = "stats" ->
            Forward(<<"Show me market statistics for the ",
                      WordOr(FirstArg(args), "7d"), " period.">>)
      [] command = "news" ->
            Forward(<<"Fetch and score the top ",
                      ParseIntOr(FirstArg(args), "5"),
                      " recent privacy-related news items for market potential.">>)
      [] command \in {"markets", "list"} ->
            Forward(<<"List my ", WordOr(FirstArg(args), "all"),
                      " markets.">>)
      [] command \in {"categories", "cats"} ->
            Handled(<<<<"showCategories", "">>>>)
      [] command = "score" ->
            IF Spell(argString) # ""
            THEN Forward(<<"Score this news headline for privacy market relevance: \"">>
                         \o argString \o <<"\"">>)
            ELSE Handled(<<<<"console.log", "Usage: /score <news headline>">>>>)
      [] command = "tools" ->
            Handled(<<<<"showTools", "">>>>)
      [] OTHER -> UnknownCommand(Head(parts))

----------------------------------------------------------------------------
(* Conversation loop: ClaudePredictAgent *)

\* config.anthropicApiKey as getConfig() returns it: undefined, the empty
\* string or a key
ApiKeys == {Undefined, "", "sk-ant-key"}

\* Variant: the constructor does not look at the key
AfterConstructor_Unchecked(apiKey) == "Idle"

\* constructor: if (!config.anthropicApiKey) throw new Error(...): no agent
\* is returned to run; otherwise the agent is ready for run
AfterConstructor(apiKey) ==
    IF apiKey = Undefined \/ apiKey = "" THEN "ConstructorThrew" ELSE "Idle"

\* constructor: this.messages = []
Init ==
    /\ anthropicApiKey \in ApiKeys
    /\ messages = <<>>
    /\ pc = AfterConstructor(anthropicApiKey)
    /\ PnpIdle
    /\ ScorerIdle
    /\ BatchIdle
    /\ BashIdle
    /\ response = NoResponse
    /\ blockIdx = 0
    /\ results = <<>>
    /\ running = NotRunning
    /\ reported = "nothing"
    /\ failedCall = NoFailedCall
    /\ notices = <<>>
    /\ DEBUG \in BOOLEAN
    /\ userMessage = <<>>
    /\ HandlerIdle

\* Variant: chat calls the model without pushing the user message
PushUser_Skipped(history, text) == history

\* chat: this.messages.push({ role: 'user', content: userMessage })
PushUser(history, text) ==
    Append(history, StringMessage("user", text))

\* chat: this.messages.push({ role: 'assistant', content: response.content })
PushAssistant(history, content) ==
    Append(history, BlockMessage("assistant", content))

\* chat: this.messages.push({ role: 'user', content: toolResults })
PushToolResults(history, toolResults) ==
    Append(history, BlockMessage("user", toolResults))

\* Variant: only a message ended by end_turn leaves the loop
NeedsTools_NotEndTurn(finalMessage) == finalMessage.stop_reason # "end_turn"

\* chat: if (response.stop_reason !== 'tool_use') break;
NeedsTools(finalMessage) == finalMessage.stop_reason = "tool_use"

\* chat, catch: if (error.status === 429) { ...; continue; }
IsRateLimit(error) == error.hasStatus /\ error.status = RateLimitStatus

\* Faulty variant of HistoryAfterRateLimit: the retry pushes the last message
\* once more
HistoryAfterRateLimit_Repush(history) ==
    Append(history, history[Len(history)])

\* chat, catch with status 429: the history the loop goes round again with
HistoryAfterRateLimit(history) == history

\* Faulty variant of AfterCaughtError: every caught error ends the loop
AfterCaughtError_Exit(code) == "Exited"

\* run, catch: the loop goes on unless error.code === 'ERR_USE_AFTER_CLOSE'
AfterCaughtError(code) ==
    IF code = "ERR_USE_AFTER_CLOSE" THEN "Exited" ELSE "Idle"

\* Variant: the loop prompts again without awaiting the turn
AtPrompt_Always(p) == p # "Exited"

\* run: const userInput = await this.prompt(rl) is reached when every await
\* of the iteration before has settled
AtPrompt(p) == p = "Idle"

\* Variant: only the empty line is skipped
Blank_EmptyOnly(userInput) == userInput = <<>>

\* run: if (!userInput.trim()) continue
Blank(userInput) == Trim(userInput) = <<>>

\* Variant: no command resets the history
HistoryAfterCommand_Keep(history, calls) == history

\* Variant: every handled command resets the history
HistoryAfterCommand_ClearAlways(history, calls) == <<>>

\* run: the context given to handleSlashCommand:
\* clearHistory: () => { this.messages = []; }
HistoryAfterCommand(history, calls) ==
    IF \E i \in 1..Len(calls) : calls[i][1] = "clearHistory"
    THEN <<>> ELSE history

\* Variant: chat is called with the typed line whatever the command returned
ChatArgument_Raw(userInput, commandResult) == userInput

\* Variant: a plain line is trimmed before it goes to chat
ChatArgument_Trimmed(userInput, commandResult) ==
    IF commandResult.returns = "string" THEN commandResult.prompt
    ELSE Trim(userInput)

\* run: typeof commandResult === 'string' ? chat(commandResult)
\*                                         : chat(userInput)
ChatArgument(userInput, commandResult) ==
    IF commandResult.returns = "string" THEN commandResult.prompt
    ELSE userInput

\* chat(text) starts: push the user message, enter the agentic loop
Chat(text) ==
    /\ Len(messages) + 2 <= MaxMessages
    /\ userMessage' = text
    /\ messages' = PushUser(messages, text)
    /\ pc' = "AwaitingModel"
    /\ failedCall' = NoFailedCall

\* run: one iteration of the loop on the line the prompt returned: a blank
\* line is skipped; otherwise handleSlashCommand decides between continue,
\* chat with the returned prompt and chat with the line (process.exit ends
\* the process inside handleSlashCommand)
ReadLine(userInput) ==
    /\ AtPrompt(pc)
    /\ IF Blank(userInput) THEN UNCHANGED vars
       ELSE LET commandResult == handleSlashCommand(userInput) IN
            /\ notices' = commandResult.calls
            /\ reported' = "nothing"
            /\ IF commandResult.returns = "true"
               THEN /\ messages' = HistoryAfterCommand(messages,
                                                       commandResult.calls)
                    /\ UNCHANGED <<pc, failedCall, userMessage>>
               ELSE IF commandResult.returns = "exit"
               THEN /\ pc' = "Exited"
                    /\ UNCHANGED <<messages, failedCall, userMessage>>
               ELSE Chat(ChatArgument(userInput, commandResult))
            /\ UNCHANGED <<response, blockIdx, results, running, DEBUG,
                           loopFrame>>

\* run: a blank line: continue
BlankInput ==
    \E userInput \in Lines : Blank(userInput) /\ ReadLine(userInput)

\* run: a line that handleSlashCommand returns false for goes to chat
UserInput ==
    \E userInput \in Lines :
        /\ ~Blank(userInput)
        /\ handleSlashCommand(userInput).returns = "false"
        /\ ReadLine(userInput)

\* run: handleSlashCommand returns a string: the prompt goes to chat
SlashForward ==
    \E userInput \in Lines :
        /\ ~Blank(userInput)
        /\ handleSlashCommand(userInput).returns = "string"
        /\ ReadLine(userInput)

\* run: handleSlashCommand returns true: continue
SlashHandled ==
    \E userInput \in Lines :
        /\ ~Blank(userInput)
        /\ handleSlashCommand(userInput).returns = "true"
        /\ ReadLine(userInput)

\* handleSlashCommand: /exit, /quit, /q: printGoodbye(); process.exit(0)
SlashExit ==
    \E userInput \in Lines :
        /\ ~Blank(userInput)
        /\ handleSlashCommand(userInput).returns = "exit"
        /\ ReadLine(userInput)

\* readline is closed (end of input): prompt throws ERR_USE_AFTER_CLOSE and
\* run's catch leaves the loop
StdinClosed ==
    /\ AtPrompt(pc)
    /\ pc' = AfterCaughtError("ERR_USE_AFTER_CLOSE")
    /\ notices' = <<>>
    /\ reported' = "nothing"
    /\ UNCHANGED <<messages, response, blockIdx, results, running, failedCall,
                   DEBUG, userMessage, loopFrame>>

\* Variant: the handler only prints
AfterSigint_Resume(p) == p

\* rl.on('SIGINT', ...): process.exit(0) ends the process
AfterSigint(p) == "Exited"

\* run: rl.on('SIGINT', () => { console.log('Goodbye!'); process.exit(0); }):
\* the readline interface emits SIGINT whenever the event loop takes the
\* interrupt up, which is between the steps of the loop, a pending model
\* call or executor call included. The frames of chat and executeTools end
\* with the process: what they held is kept nowhere.
Sigint ==
    /\ pc \notin {"Exited", "ConstructorThrew"}
    /\ notices' = <<<<"console.log", "Goodbye!">>, <<"process.exit", "0">>>>
    /\ pc' = AfterSigint(pc)
    /\ response' = NoResponse
    /\ blockIdx' = 0
    /\ results' = <<>>
    /\ running' = NotRunning
    /\ failedCall' = NoFailedCall
    /\ userMessage' = <<>>
    /\ reported' = "nothing"
    /\ UNCHANGED <<messages, DEBUG, loopFrame>>

\* chat: the model call (stream or handleStream) throws with status 429:
\* notice, sleep 10 s, continue
ModelRateLimited ==
    /\ pc = "AwaitingModel"
    /\ \E error \in ProviderErrors : IsRateLimit(error)
    /\ failedCall' = [pending |-> TRUE, history |-> messages]
    /\ messages' = HistoryAfterRateLimit(messages)
    /\ pc' = "Cooldown"
    /\ UNCHANGED <<response, blockIdx, results, running, reported, notices,
                   DEBUG>>
    /\ UNCHANGED <<userMessage, loopFrame>>

\* chat: the 10 s timer fires and the while loop issues the call again
CooldownElapsed ==
    /\ pc = "Cooldown"
    /\ pc' = "AwaitingModel"
    /\ UNCHANGED <<messages, response, blockIdx, results, running, reported,
                   failedCall, notices, DEBUG>>
    /\ UNCHANGED <<userMessage, loopFrame>>

\* chat: the model call throws anything else: chat rethrows, run's catch
\* prints the error and goes round its loop
ModelFails ==
    /\ pc = "AwaitingModel"
    /\ \E error \in ProviderErrors :
        /\ ~IsRateLimit(error)
        /\ pc' = AfterCaughtError(error.code)
        /\ reported' = error.message
        /\ notices' = <<<<"printError", error.message>>>>
    /\ failedCall' = NoFailedCall
    /\ userMessage' = <<>>
    /\ UNCHANGED <<messages, response, blockIdx, results, running, DEBUG,
                   loopFrame>>

\* chat: the stream ends with a finalized message: push it, then decide
ModelResponds ==
    /\ pc = "AwaitingModel"
    /\ Len(messages) < MaxMessages
    /\ \E shape \in ResponseShapes :
        LET content == ContentOf(shape, Len(messages) + 1) IN
        \E stop \in StopReasons(content) :
            LET finalMessage == [content |-> content, stop_reason |-> stop] IN
            /\ NeedsTools(finalMessage) => Len(messages) + 2 <= MaxMessages
            /\ messages' = PushAssistant(messages, content)
            /\ IF NeedsTools(finalMessage)
               THEN /\ pc' = "Dispatching"
                    /\ response' = finalMessage
                    /\ blockIdx' = 1
               ELSE /\ pc' = "Idle"
                    /\ response' = NoResponse
                    /\ blockIdx' = 0
            /\ userMessage' = IF NeedsTools(finalMessage) THEN userMessage
                              ELSE <<>>
    /\ results' = <<>>
    /\ notices' = <<>>
    /\ failedCall' = NoFailedCall
    /\ UNCHANGED <<running, reported, DEBUG, loopFrame>>

\* executeTools: for (const block of content) if (block.type === 'tool_use'):
\* the index of the next block the loop body acts on, 0 when none is left
NextToolUse(content, from) ==
    LET left == {i \in from..Len(content) : content[i].type = "tool_use"} IN
    IF left = {} THEN 0 ELSE CHOOSE i \in left : \A j \in left : i <= j

\* executeTools: if (result.error) 'Error: ...'
\*               else if (result.success !== undefined) 'Done.'
ResultNotice(result, id) ==
    IF "error" \in result.keys /\ result.error # "" THEN <<<<"error", id>>>>
    ELSE IF "success" \in result.keys THEN <<<<"done", id>>>>
    ELSE <<>>

\* Faulty variant of PushResult: the result is put in front (unshift)
PushResult_Unshift(toolResults, block, result) ==
    <<ToolResultBlock(block, result)>> \o toolResults

\* executeTools: results.push(...)
PushResult(toolResults, block, result) ==
    Append(toolResults, ToolResultBlock(block, result))

\* executeTools reaches a tool_use block: notice, then executeTool looks the
\* name up; an unknown name is answered at once, otherwise the executor is
\* called and awaited
StartTool ==
    /\ pc = "Dispatching"
    /\ LET i == NextToolUse(response.content, blockIdx) IN
        /\ i # 0
        /\ LET block == response.content[i]
               executor == Lookup(block.name)
           IN
           IF Falsy(executor)
           THEN LET result == UnknownToolResult(block.name) IN
                /\ results' = PushResult(results, block, result)
                /\ notices' = notices \o <<<<"executing", block.id>>>>
                                      \o ResultNotice(result, block.id)
                /\ blockIdx' = i + 1
                /\ UNCHANGED <<pc, running>>
           ELSE /\ \E startTime \in ClockValues :
                    running' = [active |-> TRUE, index |-> i,
                                startTime |-> startTime]
                /\ notices' = notices \o <<<<"executing", block.id>>,
                                           <<"invoke", block.id>>>>
                /\ pc' = "ToolRunning"
                /\ UNCHANGED <<results, blockIdx>>
    /\ UNCHANGED <<messages, response, reported, failedCall, DEBUG>>
    /\ UNCHANGED <<userMessage, loopFrame>>

\* executeTool: the awaited executor returns: time it and add the envelope
ToolReturns ==
    /\ pc = "ToolRunning"
    /\ LET block == response.content[running.index]
           executor == Lookup(block.name)
       IN
       \E value \in ExecutorReturnValues(executor, block.name) :
       \E elapsed \in ElapsedValues :
        LET result == SuccessResult(block.name, value, running.startTime,
                                    running.startTime + elapsed)
        IN
        /\ results' = PushResult(results, block, result)
        /\ notices' = notices \o ResultNotice(result, block.id)
    /\ blockIdx' = running.index + 1
    /\ running' = NotRunning
    /\ pc' = "Dispatching"
    /\ UNCHANGED <<messages, response, reported, failedCall, DEBUG>>
    /\ UNCHANGED <<userMessage, loopFrame>>

\* executeTool: the executor throws or its promise rejects: catch
ToolThrows ==
    /\ pc = "ToolRunning"
    /\ LET block == response.content[running.index]
           executor == Lookup(block.name)
       IN
       \E message \in ExecutorThrownMessages(executor, block.name) :
        LET result == FailureResult(block.name, message, DEBUG) IN
        /\ results' = PushResult(results, block, result)
        /\ notices' = notices \o ResultNotice(result, block.id)
    /\ blockIdx' = running.index + 1
    /\ running' = NotRunning
    /\ pc' = "Dispatching"
    /\ UNCHANGED <<messages, response, reported, failedCall, DEBUG>>
    /\ UNCHANGED <<userMessage, loopFrame>>

\* executeTools returns; chat pushes the results as one user message and
\* goes round the while loop to call the model again
FinishDispatch ==
    /\ pc = "Dispatching"
    /\ NextToolUse(response.content, blockIdx) = 0
    /\ messages' = PushToolResults(messages, results)
    /\ pc' = "AwaitingModel"
    /\ response' = NoResponse
    /\ blockIdx' = 0
    /\ results' = <<>>
    /\ UNCHANGED <<running, reported, failedCall, notices, DEBUG>>
    /\ UNCHANGED <<userMessage, loopFrame>>

\* One model call comes to some end
ModelCall == ModelResponds \/ ModelRateLimited \/ ModelFails

Next ==
    \/ BlankInput
    \/ UserInput
    \/ SlashForward
    \/ SlashHandled
    \/ SlashExit
    \/ StdinClosed
    \/ Sigint
    \/ ModelRateLimited
    \/ CooldownElapsed
    \/ ModelFails
    \/ ModelResponds
    \/ StartTool
    \/ ToolReturns
    \/ ToolThrows
    \/ FinishDispatch

Spec == Init /\ [][Next]_vars

\* The provider ends every call, the cooldown timer fires, every executor
\* call settles and the loop takes its own steps; the user need not type
FairSpec ==
    /\ Spec
    /\ WF_vars(ModelCall)
    /\ WF_vars(CooldownElapsed)
    /\ WF_vars(StartTool)
    /\ WF_vars(ToolReturns \/ ToolThrows)
    /\ WF_vars(FinishDispatch)

----------------------------------------------------------------------------
(* Stream handler: ClaudePredictAgent.handleStream *)

\* The text of a text block, as its tokens
ReplyText == <<"Privacy", " ", "matters">>

\* The fragments a text is delivered in when it is cut after the places in
\* cuts
RECURSIVE FragmentsFrom(_, _, _)
FragmentsFrom(text, cuts, start) ==
    LET left == {c \in cuts : c >= start /\ c < Len(text)} IN
    IF left = {} THEN <<SubSeq(text, start, Len(text))>>
    ELSE LET k == CHOOSE c \in left : \A d \in left : c <= d IN
         <<SubSeq(text, start, k)>> \o FragmentsFrom(text, cuts, k + 1)

Fragments(text, cuts) == FragmentsFrom(text, cuts, 1)

\* The blocks a stream may deliver: a text block or a tool_use block, its
\* text cut into fragments in every way
StreamBlocks ==
    {[shape |-> Txt, text |-> ReplyText, cuts |-> cuts] :
        cuts \in SUBSET (1..(Len(ReplyText) - 1))}
    \cup {[shape |-> Use("create_market"), text |-> InputJson, cuts |-> cuts] :
        cuts \in SUBSET (1..(Len(InputJson) - 1))}
    \cup {[shape |-> Cut("read_file"), text |-> CutInputJson, cuts |-> cuts] :
        cuts \in SUBSET (1..(Len(CutInputJson) - 1))}

\* The streams: one block, or a text block and a tool_use block in either
\* order, or two text blocks
StreamPlans ==
    {<<b>> : b \in StreamBlocks}
    \cup {<<a, b>> : a \in {x \in StreamBlocks : x.shape = Txt},
                     b \in StreamBlocks}
    \cup {<<a, b>> : a \in {x \in StreamBlocks : x.shape = Use("create_market")},
                     b \in {x \in StreamBlocks : x.shape = Txt}}

Event(type, index, kind, name, text) ==
    [type |-> type, index |-> index, kind |-> kind, name |-> name,
     text |-> text]

\* The events of one block: content_block_start, one content_block_delta
\* for each fragment, content_block_stop
BlockEvents(block, index) ==
    LET isText == block.shape.name = "text"
        fragments == Fragments(block.text, block.cuts)
    IN
    <<Event("content_block_start", index,
            IF isText THEN "text" ELSE "tool_use",
            IF isText THEN "" ELSE block.shape.name, <<>>)>>
    \o [k \in 1..Len(fragments) |->
            Event("content_block_delta", index,
                  IF isText THEN "text_delta" ELSE "input_json_delta",
                  "", fragments[k])]
    \o <<Event("content_block_stop", index, "", "", <<>>)>>

RECURSIVE BlocksEvents(_, _)
BlocksEvents(plan, index) ==
    IF index > Len(plan) THEN <<>>
    ELSE BlockEvents(plan[index], index) \o BlocksEvents(plan, index + 1)

\* The events of a stream, between message_start and message_stop
EventsOf(plan) ==
    <<Event("message_start", 0, "", "", <<>>)>>
    \o BlocksEvents(plan, 1)
    \o <<Event("message_stop", 0, "", "", <<>>)>>

\* Variant: a text fragment is put before what was written
WriteText_Prepend(out, text) == <<<<"write", text>>>> \o out

\* process.stdout.write(event.delta.text)
WriteText(out, text) == Append(out, <<"write", text>>)

\* Variant: a fragment is put before what was collected
AppendJson_Prepend(collected, partial) == partial \o collected

\* toolInput += event.delta.partial_json
AppendJson(collected, partial) == collected \o partial

\* The text of a sequence of fragments
RECURSIVE Concat(_)
Concat(fragments) ==
    IF fragments = <<>> THEN <<>>
    ELSE Head(fragments) \o Concat(Tail(fragments))

\* stream.finalMessage(): the message the SDK accumulated from the events:
\* a block for each content_block_start, a text block with the text of its
\* text_delta fragments, a tool_use block with the name of its start event
\* and the input parsed from the text of its input_json_delta fragments
AccumulatedBlock(evs, index) ==
    LET start == CHOOSE e \in {evs[i] : i \in 1..Len(evs)} :
                    e.type = "content_block_start" /\ e.index = index
        IsDeltaOf(e) == e.type = "content_block_delta" /\ e.index = index
        deltas == SelectSeq(evs, IsDeltaOf)
        text == Concat([k \in 1..Len(deltas) |-> deltas[k].text])
    IN
    IF start.kind = "text" THEN [type |-> "text", text |-> Spell(text)]
    ELSE ToolUseBlock(<<1, index>>, start.name, JsonParse(text))

AccumulatedContent(evs) ==
    LET starts == {i \in 1..Len(evs) : evs[i].type = "content_block_start"}
    IN [index \in 1..Cardinality(starts) |-> AccumulatedBlock(evs, index)]

\* What stream.finalMessage() settles with: the accumulated message; when a
\* tool input does not parse, the accumulated message with what could be
\* read of the input, or a thrown error
Thrown == [content |-> <<>>, stop_reason |-> "thrown"]
FinalMessages(evs) ==
    LET content == AccumulatedContent(evs) IN
    {[content |-> content, stop_reason |-> stop] :
        stop \in StopReasons(content)}
    \cup (IF \E i \in 1..Len(content) :
                IsToolUse(content[i]) /\ ~content[i].input.complete
          THEN {Thrown} ELSE {})

\* chat has called the model and handleStream starts on the stream:
\* console.log() before the loop
StreamInit ==
    /\ anthropicApiKey = "sk-ant-key"
    /\ PnpIdle
    /\ ScorerIdle
    /\ BatchIdle
    /\ BashIdle
    /\ messages = PushUser(<<>>, <<" ", "hello">>)
    /\ userMessage = <<" ", "hello">>
    /\ pc = "AwaitingModel"
    /\ response = NoResponse
    /\ blockIdx = 0
    /\ results = <<>>
    /\ running = NotRunning
    /\ reported = "nothing"
    /\ failedCall = NoFailedCall
    /\ notices = <<>>
    /\ DEBUG \in BOOLEAN
    /\ \E plan \in StreamPlans : events = EventsOf(plan)
    /\ eventIdx = 1
    /\ currentToolUse = "null"
    /\ toolInput = <<>>
    /\ firstText = TRUE
    /\ stdout = <<<<"console.log", "">>>>
    /\ returned = NoResponse

loopVars == <<messages, pc, response, blockIdx, results, running, reported,
              failedCall, notices, DEBUG, userMessage>>

\* What no step of handleStream changes
streamFrame == <<loopVars, anthropicApiKey, pnpVars, bashVars, scorerVars,
                 batchVars>>

AtEvent(type) ==
    /\ eventIdx \in 1..Len(events)
    /\ events[eventIdx].type = type

\* case 'content_block_start'
BlockStart ==
    /\ AtEvent("content_block_start")
    /\ LET event == events[eventIdx] IN
       IF event.kind = "tool_use"
       THEN /\ currentToolUse' = event.name
            /\ toolInput' = <<>>
            /\ stdout' = Append(stdout, <<"printToolUse", event.name>>)
            /\ UNCHANGED firstText
       ELSE /\ firstText' = FALSE
            /\ UNCHANGED <<currentToolUse, toolInput, stdout>>
    /\ eventIdx' = eventIdx + 1
    /\ UNCHANGED <<streamFrame, events, returned>>

\* case 'content_block_delta'
BlockDelta ==
    /\ AtEvent("content_block_delta")
    /\ LET event == events[eventIdx] IN
       IF event.kind = "text_delta"
       THEN /\ stdout' = WriteText(stdout, event.text)
            /\ UNCHANGED toolInput
       ELSE /\ toolInput' = AppendJson(toolInput, event.text)
            /\ UNCHANGED stdout
    /\ eventIdx' = eventIdx + 1
    /\ UNCHANGED <<streamFrame, events, currentToolUse, firstText, returned>>

\* case 'content_block_stop'
BlockStop ==
    /\ AtEvent("content_block_stop")
    /\ currentToolUse' = "null"
    /\ toolInput' = <<>>
    /\ eventIdx' = eventIdx + 1
    /\ UNCHANGED <<streamFrame, events, firstText, stdout, returned>>

\* An event of a type the switch has no case for
OtherEvent ==
    /\ eventIdx \in 1..Len(events)
    /\ events[eventIdx].type \notin {"content_block_start",
                                     "content_block_delta",
                                     "content_block_stop"}
    /\ eventIdx' = eventIdx + 1
    /\ UNCHANGED <<streamFrame, events, currentToolUse, toolInput, firstText,
                   stdout, returned>>

\* The stream is exhausted: console.log(); return stream.finalMessage()
StreamEnd ==
    /\ eventIdx = Len(events) + 1
    /\ returned = NoResponse
    /\ stdout' = Append(stdout, <<"console.log", "">>)
    /\ returned' \in FinalMessages(events)
    /\ UNCHANGED <<streamFrame, events, eventIdx, currentToolUse, toolInput,
                   firstText>>

StreamNext ==
    \/ BlockStart
    \/ BlockDelta
    \/ BlockStop
    \/ OtherEvent
    \/ StreamEnd

StreamSpec == StreamInit /\ [][StreamNext]_vars

----------------------------------------------------------------------------
(* PNPFUCIUS: its registry (tools/index.js), its slash commands           *)
(* (slash-commands.js) and PnpfuciusAgent.run / executeTool, specified by *)
(* PnpSpec. The dispatcher executeTool is that of Claude Predict, line    *)
(* for line, over the registry below.                                     *)

\* marketToolDefinitions of PNPFUCIUS: the names, in source order
marketToolDefinitions_pnpfucius ==
    <<"create_market", "list_markets", "get_market_info", "buy_tokens",
      "sell_tokens", "get_market_prices", "get_balances", "redeem_position",
      "claim_refund", "create_market_from_source", "get_settlement_criteria",
      "get_settlement_data", "wait_for_settlement", "settle_market",
      "discover_all_markets", "get_market_metadata", "get_v2_market_info",
      "get_p2p_market_info", "create_p2p_market_simple",
      "create_p2p_market_with_odds", "create_amm_market_with_odds",
      "create_market_with_oracle", "redeem_v3_position",
      "redeem_p2p_position", "claim_p2p_refund", "buy_v3_tokens",
      "get_pnp_config">>

\* export const tools = [...marketToolDefinitions, ...analyticsToolDefinitions]
tools_pnpfucius == marketToolDefinitions_pnpfucius \o analyticsToolDefinitions

\* const toolExecutors = { ... } of PNPFUCIUS
toolExecutors_pnpfucius ==
    [n \in {"create_market", "list_markets", "get_market_info", "buy_tokens",
            "sell_tokens", "get_market_prices", "get_balances",
            "redeem_position", "claim_refund", "create_market_from_source",
            "get_settlement_criteria", "get_settlement_data",
            "wait_for_settlement", "settle_market", "discover_all_markets",
            "get_market_metadata", "get_v2_market_info", "get_p2p_market_info",
            "create_p2p_market_simple", "create_p2p_market_with_odds",
            "create_amm_market_with_odds", "create_market_with_oracle",
            "redeem_v3_position", "redeem_p2p_position", "claim_p2p_refund",
            "buy_v3_tokens", "get_pnp_config"}
        |-> "executeMarketTool"]
    @@ [n \in {"get_stats", "get_categories"} |-> "executeAnalyticsTool"]

\* const executor = toolExecutors[name]
Lookup_pnpfucius(name) ==
    IF name \in DOMAIN toolExecutors_pnpfucius
    THEN [kind |-> "executor", fn |-> toolExecutors_pnpfucius[name]]
    ELSE IF name \in PrototypeFunctions
    THEN [kind |-> "inherited_function", fn |-> name]
    ELSE IF name \in PrototypeObjects
    THEN [kind |-> "inherited_object", fn |-> name]
    ELSE [kind |-> "undefined", fn |-> Undefined]

\* The case labels of executeMarketTool of PNPFUCIUS; its analytics
\* executor is the one of Claude Predict
Cases_pnpfucius(fn) ==
    IF fn = "executeMarketTool"
    THEN {"create_market", "list_markets", "get_market_info", "buy_tokens",
          "sell_tokens", "get_market_prices", "get_balances",
          "redeem_position", "claim_refund", "create_market_from_source",
          "get_settlement_criteria", "get_settlement_data",
          "wait_for_settlement", "settle_market", "discover_all_markets",
          "get_market_metadata", "get_v2_market_info", "get_p2p_market_info",
          "create_p2p_market_simple", "create_p2p_market_with_odds",
          "create_amm_market_with_odds", "create_market_with_oracle",
          "redeem_v3_position", "redeem_p2p_position", "claim_p2p_refund",
          "buy_v3_tokens", "get_pnp_config"}
    ELSE Cases(fn)

\* Lines the user may type at the prompt of PNPFUCIUS
Lines_pnpfucius ==
    {<<" ">>,
     <<"hello">>,
     <<"/", "help">>,
     <<"/", "exit">>,
     <<"/", "clear">>,
     <<"/", "frobnicate">>,
     <<"/", "discover">>,
     <<"/", "create", " ", "Will", " ", "X">>,
     <<"/", "create">>,
     <<"/", "p2p", " ", "Q">>,
     <<"/", "odds", " ", "70", " ", "Q">>,
     <<"/", "odds", " ", "high", " ", "Q">>,
     <<"/", "info", " ", "ADDR">>,
     <<"/", "buy", " ", "ADDR", " ", "yes", " ", "5">>,
     <<"/", "buy", " ", "ADDR">>,
     <<"/", "buy", " ", "ADDR", " ", "yes", " ", "lots">>,
     <<"/", "sell", " ", "ADDR", " ", "no", " ", "5">>,
     <<"/", "prices", " ", "ADDR">>,
     <<"/", "balance", " ", "ADDR">>,
     <<"/", "oracle", " ", "ADDR">>,
     <<"/", "settlement", " ", "ADDR">>,
     <<"/", "settle", " ", "ADDR", " ", "yes">>,
     <<"/", "settle", " ", "ADDR">>,
     <<"/", "redeem", " ", "ADDR">>,
     <<"/", "refund", " ", "ADDR">>,
     <<"/", "pnp">>}

\* parseInt(word), parseFloat(word): the number of a numeral, as its
\* numeral; NaN otherwise
NumberWords == {"5", "70"}
ParseNumber(word) == IF word \in NumberWords THEN word ELSE "NaN"

\* What a call of handleSlashCommand does: what it returns, what it prints
\* itself, and the one execTool call it makes, if any. A tool input is the
\* set of its members, each a key and a value.
NoTool == [name |-> "", input |-> {}]
Plan(returns, calls, tool) ==
    [returns |-> returns, calls |-> calls, tool |-> tool]
Usage(text) == Plan("true", <<<<"console.log", text>>>>, NoTool)
ExecTool(name, input) == Plan("true", <<>>, [name |-> name, input |-> input])

\* Variant: /create asks for a market of a week
CreateInput_OneWeek(question) ==
    {<<"question", question>>, <<"liquidity_usdc", "1">>,
     <<"duration_days", "7">>}

\* case 'create': { question: argString, liquidity_usdc: 1,
\*                  duration_days: 30 }
CreateInput(question) ==
    {<<"question", question>>, <<"liquidity_usdc", "1">>,
     <<"duration_days", "30">>}

\* A command that takes the rest of the line as a market address
AddressCommand(argString, name, usage) ==
    IF Spell(argString) # ""
    THEN ExecTool(name, {<<"market_address", Spell(argString)>>})
    ELSE Usage(usage)

\* handleSlashCommand of PNPFUCIUS, called with the context run gives it
\* (executeTool is set)
handleSlashCommand_pnpfucius(input) ==
    LET trimmed == Trim(input) IN
    IF ~StartsWith(trimmed, "/") THEN Plan("false", <<>>, NoTool)
    ELSE
    LET parts == Split(Tail(trimmed))
        command == ToLowerCase(Head(parts))
        args == Tail(parts)
        argString == Join(args)
    IN
    CASE command \in {"help", "h", "?"} ->
            Plan("true", <<<<"printHelp", "">>>>, NoTool)
      [] command \in {"exit", "quit", "q"} ->
            Plan("exit", <<<<"printGoodbye", "">>, <<"process.exit", "0">>>>,
                 NoTool)
      [] command \in {"clear", "cls"} ->
            Plan("true", <<<<"printWelcome", "">>>>, NoTool)
      [] command = "config" ->
            Plan("true", <<<<"showConfig", "">>>>, NoTool)
      [] command \in {"discover", "explore", "markets"} ->
            ExecTool("discover_all_markets",
                     {<<"version", WordOr(FirstArg(args), "all")>>})
      [] command = "create" ->
            IF Spell(argString) # ""
            THEN ExecTool("create_market", CreateInput(Spell(argString)))
            ELSE Usage("Usage: /create <market question>")
      [] command = "p2p" ->
            IF Spell(argString) # ""
            THEN ExecTool("create_p2p_market_simple",
                          {<<"question", Spell(argString)>>,
                           <<"side", "yes">>, <<"amount_usdc", "1">>})
            ELSE Usage("Usage: /p2p <market question>")
      [] command = "odds" ->
            IF Len(args) >= 2
            THEN IF ParseNumber(args[1]) # "NaN"
                 THEN ExecTool("create_amm_market_with_odds",
                               {<<"question", Spell(Join(Tail(args)))>>,
                                <<"yes_odds_percent", ParseNumber(args[1])>>,
                                <<"liquidity_usdc", "1">>})
                 ELSE Plan("true", <<>>, NoTool)
            ELSE Usage("Usage: /odds <percent> <question>")
      [] command = "info" ->
            AddressCommand(argString, "get_market_info",
                           "Usage: /info <market_address>")
      [] command = "buy" ->
            IF Len(args) >= 3
            THEN ExecTool("buy_tokens",
                          {<<"market_address", args[1]>>, <<"side", args[2]>>,
                           <<"amount_usdc", ParseNumber(args[3])>>})
            ELSE Usage("Usage: /buy <market_address> <yes|no> <usdc_amount>")
      [] command = "sell" ->
            IF Len(args) >= 3
            THEN ExecTool("sell_tokens",
                          {<<"market_address", args[1]>>, <<"side", args[2]>>,
                           <<"amount", ParseNumber(args[3])>>})
            ELSE Usage("Usage: /sell <market_address> <yes|no> <token_amount>")
      [] command \in {"prices", "price"} ->
            AddressCommand(argString, "get_market_prices",
                           "Usage: /prices <market_address>")
      [] command \in {"balance", "balances"} ->
            AddressCommand(argString, "get_balances",
                           "Usage: /balance <market_address>")
      [] command \in {"oracle", "criteria"} ->
            AddressCommand(argString, "get_settlement_criteria",
                           "Usage: /oracle <market_address>")
      [] command \in {"settlement", "resolve"} ->
            AddressCommand(argString, "get_settlement_data",
                           "Usage: /settlement <market_address>")
      [] command = "settle" ->
            IF Len(args) >= 2
            THEN ExecTool("settle_market",
                          {<<"market_address", args[1]>>,
                           <<"outcome", args[2]>>})
            ELSE Usage("Usage: /settle <market_address> <yes|no>")
      [] command = "redeem" ->
            AddressCommand(argString, "redeem_position",
                           "Usage: /redeem <market_address>")
      [] command = "refund" ->
            AddressCommand(argString, "claim_refund",
                           "Usage: /refund <market_address>")
      [] command = "pnp" -> ExecTool("get_pnp_config", {})
      [] command = "tools" ->
            Plan("true", <<<<"showTools", "">>>>, NoTool)
      [] OTHER ->
            Plan("true",
                 <<<<"console.log", "Unknown command: /" \o Head(parts)>>,
                   <<"console.log", "Type /help for available commands.">>>>,
                 NoTool)

\* marketToolDefinitions of PNPFUCIUS: input_schema.required of each tool
\* (none where the schema has no required list); the analytics tools
\* require nothing
Required_pnpfucius(name) ==
    CASE name \in {"create_market", "create_p2p_market_simple"} ->
            {"question"}
      [] name = "get_market_info" -> {"address"}
      [] name \in {"buy_tokens", "buy_v3_tokens"} ->
            {"market_address", "side", "amount_usdc"}
      [] name = "sell_tokens" -> {"market_address", "side", "amount"}
      [] name \in {"get_market_prices", "get_balances", "redeem_position",
                   "claim_refund", "get_settlement_criteria",
                   "get_settlement_data", "wait_for_settlement",
                   "get_market_metadata", "get_v2_market_info",
                   "get_p2p_market_info", "redeem_v3_position",
                   "redeem_p2p_position", "claim_p2p_refund"} ->
            {"market_address"}
      [] name = "create_market_from_source" ->
            {"question", "source_url", "source_type"}
      [] name = "settle_market" -> {"market_address", "outcome"}
      [] name = "create_p2p_market_with_odds" ->
            {"question", "side", "odds_percent"}
      [] name = "create_amm_market_with_odds" ->
            {"question", "yes_odds_percent"}
      [] name = "create_market_with_oracle" ->
            {"question", "settler_address"}
      [] OTHER -> {}

\* executeMarketTool of PNPFUCIUS: the members of input a branch reads with
\* no default to fall back on (input.x, not input.x || d), for the tools a
\* slash command calls
Reads_pnpfucius(name) ==
    CASE name \in {"create_market", "create_p2p_market_simple",
                   "create_amm_market_with_odds"} -> {"question"}
      [] name = "get_market_info" -> {"address"}
      [] name = "buy_tokens" -> {"market_address", "side", "amount_usdc"}
      [] name = "sell_tokens" -> {"market_address", "side", "amount"}
      [] name \in {"get_market_prices", "get_balances", "redeem_position",
                   "claim_refund", "get_settlement_criteria",
                   "get_settlement_data"} -> {"market_address"}
      [] name = "settle_market" -> {"market_address", "outcome"}
      [] OTHER -> {}

\* The names of the members of a tool input
Members(input) == {member[1] : member \in input}

\* PnpfuciusAgent has been constructed (its constructor reads no key) and
\* run has shown the prompt
PnpInit ==
    /\ anthropicApiKey = Undefined
    /\ LoopIdle
    /\ DEBUG \in BOOLEAN
    /\ HandlerIdle
    /\ PnpIdle
    /\ ScorerIdle
    /\ BatchIdle
    /\ BashIdle

\* What no step of PnpfuciusAgent changes
pnpFrame == <<loopVars, anthropicApiKey, handlerVars, bashVars, scorerVars,
              batchVars>>

\* PnpfuciusAgent.executeTool: console.log(`◆ ${toolName}`) before the call
StartNotice(toolName) == <<"tool", toolName>>

\* Variant: the outcome is printed as done whatever the result
DoneNotice_Always(toolName, result) ==
    <<<<"done", toolName>>, <<"displayResult", toolName>>>>

\* PnpfuciusAgent.executeTool: if (result.error) '✗ ...'
\*                             else { '✓ Done'; this.displayResult(...) }
DoneNotice(toolName, result) ==
    IF "error" \in result.keys /\ result.error # ""
    THEN <<<<"errored", toolName>>>>
    ELSE <<<<"done", toolName>>, <<"displayResult", toolName>>>>

\* run: one iteration of the loop on the line the prompt returned, up to the
\* point where it awaits the executor or is over
PnpReadLine(userInput) ==
    /\ agentPc = "Idle"
    /\ IF Blank(userInput) THEN UNCHANGED vars
       ELSE LET result == handleSlashCommand_pnpfucius(userInput) IN
            /\ IF result.returns = "false"
               THEN /\ printed' = <<<<"console.log",
                                     "Unknown command. Type /help for available commands.">>>>
                    /\ UNCHANGED <<agentPc, toolCall>>
               ELSE IF result.returns = "exit"
               THEN /\ printed' = result.calls
                    /\ agentPc' = "Exited"
                    /\ UNCHANGED toolCall
               ELSE IF result.tool = NoTool
               THEN /\ printed' = result.calls
                    /\ UNCHANGED <<agentPc, toolCall>>
               ELSE LET executor == Lookup_pnpfucius(result.tool.name) IN
                    IF Falsy(executor)
                    THEN /\ printed' =
                            <<StartNotice(result.tool.name)>>
                              \o DoneNotice(result.tool.name,
                                            UnknownToolResult(result.tool.name))
                         /\ UNCHANGED <<agentPc, toolCall>>
                    ELSE /\ printed' = <<StartNotice(result.tool.name)>>
                         /\ agentPc' = "ToolRunning"
                         /\ \E startTime \in ClockValues :
                             toolCall' = [active |-> TRUE,
                                          name |-> result.tool.name,
                                          input |-> result.tool.input,
                                          startTime |-> startTime]
            /\ UNCHANGED pnpFrame

\* run: a blank line: continue
PnpBlankInput ==
    \E userInput \in Lines_pnpfucius : Blank(userInput) /\ PnpReadLine(userInput)

\* run: result === false: the 'Unknown command' notice
PnpNotACommand ==
    \E userInput \in Lines_pnpfucius :
        /\ ~Blank(userInput)
        /\ handleSlashCommand_pnpfucius(userInput).returns = "false"
        /\ PnpReadLine(userInput)

\* A command that calls no tool
PnpHandled ==
    \E userInput \in Lines_pnpfucius :
        /\ ~Blank(userInput)
        /\ handleSlashCommand_pnpfucius(userInput).returns = "true"
        /\ handleSlashCommand_pnpfucius(userInput).tool = NoTool
        /\ PnpReadLine(userInput)

\* A command that calls a tool: PnpfuciusAgent.executeTool prints the start
\* notice and awaits the dispatcher
PnpExecTool ==
    \E userInput \in Lines_pnpfucius :
        /\ ~Blank(userInput)
        /\ handleSlashCommand_pnpfucius(userInput).tool # NoTool
        /\ PnpReadLine(userInput)

\* /exit, /quit, /q: printGoodbye(); process.exit(0)
PnpExit ==
    \E userInput \in Lines_pnpfucius :
        /\ ~Blank(userInput)
        /\ handleSlashCommand_pnpfucius(userInput).returns = "exit"
        /\ PnpReadLine(userInput)

\* The executor returns: the dispatcher adds _meta, PnpfuciusAgent.executeTool
\* prints the outcome and the command returns true
PnpToolReturns ==
    /\ agentPc = "ToolRunning"
    /\ LET executor == Lookup_pnpfucius(toolCall.name) IN
       \E value \in ExecutorReturnValues(executor, toolCall.name) :
       \E elapsed \in ElapsedValues :
        LET result == SuccessResult(toolCall.name, value, toolCall.startTime,
                                    toolCall.startTime + elapsed) IN
        printed' = printed \o DoneNotice(toolCall.name, result)
    /\ agentPc' = "Idle"
    /\ toolCall' = NoToolCall
    /\ UNCHANGED pnpFrame

\* The executor throws: the dispatcher returns the error result and
\* PnpfuciusAgent.executeTool prints it
PnpToolThrows ==
    /\ agentPc = "ToolRunning"
    /\ LET executor == Lookup_pnpfucius(toolCall.name) IN
       \E message \in ExecutorThrownMessages(executor, toolCall.name) :
        LET result == FailureResult(toolCall.name, message, DEBUG) IN
        printed' = printed \o DoneNotice(toolCall.name, result)
    /\ agentPc' = "Idle"
    /\ toolCall' = NoToolCall
    /\ UNCHANGED pnpFrame

\* readline is closed: prompt throws ERR_USE_AFTER_CLOSE and run leaves its
\* loop
PnpStdinClosed ==
    /\ agentPc = "Idle"
    /\ agentPc' = AfterCaughtError("ERR_USE_AFTER_CLOSE")
    /\ printed' = <<>>
    /\ UNCHANGED <<toolCall, pnpFrame>>

\* run: rl.on('SIGINT', () => { printGoodbye(); process.exit(0); })
PnpSigint ==
    /\ agentPc # "Exited"
    /\ printed' = <<<<"printGoodbye", "">>, <<"process.exit", "0">>>>
    /\ agentPc' = AfterSigint(agentPc)
    /\ toolCall' = NoToolCall
    /\ UNCHANGED pnpFrame

PnpNext ==
    \/ PnpBlankInput
    \/ PnpNotACommand
    \/ PnpHandled
    \/ PnpExecTool
    \/ PnpExit
    \/ PnpToolReturns
    \/ PnpToolThrows
    \/ PnpStdinClosed
    \/ PnpSigint

PnpSpec == PnpInit /\ [][PnpNext]_vars

----------------------------------------------------------------------------
(* The run_command tool: executeBashTool (tools/bash-tool.js), specified  *)
(* by BashSpec and FairBashSpec                                           *)

\* const { command, cwd, timeout = 30000 } = input
DefaultTimeout == 30000

\* chunks the child may write to one of its streams
MaxChunks == 2

\* Inputs of a call: a command, with or without a timeout of its own. The
\* timeouts are those spawn accepts (non-negative integers).
BashInputs ==
    {[command |-> "npm test", hasTimeout |-> FALSE, timeout |-> 0],
     [command |-> "sleep 60", hasTimeout |-> TRUE, timeout |-> 5000]}

\* What the child writes in one 'data' event, as tokens
Chunks == {<<"out">>, <<" ">>}

\* The code 'close' passes: the exit code of a child that exited, null for
\* one that a signal ended; a child that could not be spawned closes with
\* a negative code
ExitCodes(process) ==
    IF process.state = "errored" THEN {"-2"}
    ELSE IF process.signalled THEN {"0", "1", "null"}
    ELSE {"0", "1"}

\* err.message of the 'error' event of a child that could not be spawned
SpawnErrors == {"spawn /bin/sh ENOENT"}

\* timeout = 30000 in the destructuring: the default applies when the input
\* has no timeout
Timeout(input) == IF input.hasTimeout THEN input.timeout ELSE DefaultTimeout

\* close: resolve({ command, exit_code: code, stdout: stdout.trim(),
\*                  stderr: stderr.trim(), success: code === 0 })
CloseResult(command, code, out, err) ==
    [keys |-> {"command", "exit_code", "stdout", "stderr", "success"},
     command |-> command, exit_code |-> code, stdout |-> Trim(out),
     stderr |-> Trim(err), error |-> Undefined, success |-> code = "0"]

\* error: resolve({ command, error: err.message, success: false })
ErrorResult(command, message) ==
    [keys |-> {"command", "error", "success"},
     command |-> command, exit_code |-> Undefined, stdout |-> <<>>,
     stderr |-> <<>>, error |-> message, success |-> FALSE]

\* Variant: the timer's result is that of a command that ended well
TimeoutResult_Success(command) == CloseResult(command, "0", <<>>, <<>>)

\* setTimeout: resolve({ command, error: 'Command timed out',
\*                       success: false })
TimeoutResult(command) == ErrorResult(command, "Command timed out")

\* Variant: a promise takes the value of its last resolve
Resolve_Last(promise, value) == [state |-> "resolved", value |-> value]

\* new Promise((resolve) => ...): resolve settles a pending promise and does
\* nothing to a settled one
Resolve(promise, value) ==
    IF promise.state = "pending"
    THEN [state |-> "resolved", value |-> value]
    ELSE promise

\* executeBashTool has run its body: spawn has returned the child (one that
\* could not be started tells so by its 'error' event), the handlers are
\* attached and the timer is armed with the timeout; the promise is returned
\* pending
BashInit ==
    /\ anthropicApiKey = "sk-ant-key"
    /\ LoopIdle
    /\ DEBUG = FALSE
    /\ HandlerIdle
    /\ PnpIdle
    /\ ScorerIdle
    /\ BatchIdle
    /\ bashInput \in BashInputs
    /\ proc \in {[state |-> "running", signalled |-> FALSE],
                 [state |-> "failed", signalled |-> FALSE]}
    /\ procStdout = <<>>
    /\ procStderr = <<>>
    /\ timer = [state |-> "armed", delay |-> Timeout(bashInput)]
    /\ settled = Pending

\* What no step of executeBashTool changes
bashFrame == <<loopVars, anthropicApiKey, handlerVars, pnpVars, bashInput,
               scorerVars, batchVars>>

\* proc.stdout.on('data', (data) => { stdout += data.toString(); })
StdoutData ==
    /\ proc.state = "running"
    /\ Len(procStdout) < MaxChunks
    /\ \E data \in Chunks : procStdout' = procStdout \o data
    /\ UNCHANGED <<bashFrame, proc, procStderr, timer, settled>>

\* proc.stderr.on('data', (data) => { stderr += data.toString(); })
StderrData ==
    /\ proc.state = "running"
    /\ Len(procStderr) < MaxChunks
    /\ \E data \in Chunks : procStderr' = procStderr \o data
    /\ UNCHANGED <<bashFrame, proc, procStdout, timer, settled>>

\* proc.on('error', (err) => resolve({...})): the child could not be spawned
ProcError ==
    /\ proc.state = "failed"
    /\ \E message \in SpawnErrors :
        settled' = Resolve(settled, ErrorResult(bashInput.command, message))
    /\ proc' = [proc EXCEPT !.state = "errored"]
    /\ UNCHANGED <<bashFrame, procStdout, procStderr, timer>>

\* proc.on('close', (code) => resolve({...})): the child has ended and its
\* streams are closed
ProcClose ==
    /\ proc.state \in {"running", "errored"}
    /\ \E code \in ExitCodes(proc) :
        settled' = Resolve(settled, CloseResult(bashInput.command, code,
                                                procStdout, procStderr))
    /\ proc' = [proc EXCEPT !.state = "closed"]
    /\ UNCHANGED <<bashFrame, procStdout, procStderr, timer>>

\* setTimeout(() => { proc.kill(); resolve({...}); }, timeout): the timer
\* fires, whether or not the child has ended; proc.kill() signals a child
\* that is still running
TimerFires ==
    /\ timer.state = "armed"
    /\ timer' = [timer EXCEPT !.state = "fired"]
    /\ proc' = IF proc.state = "running"
               THEN [proc EXCEPT !.signalled = TRUE] ELSE proc
    /\ settled' = Resolve(settled, TimeoutResult(bashInput.command))
    /\ UNCHANGED <<bashFrame, procStdout, procStderr>>

BashNext ==
    \/ StdoutData
    \/ StderrData
    \/ ProcError
    \/ ProcClose
    \/ TimerFires

BashSpec == BashInit /\ [][BashNext]_vars

\* A timer that is armed fires
FairBashSpec == BashSpec /\ WF_vars(TimerFires)

----------------------------------------------------------------------------
(* AIScorer (ai/scorer.js): scoreNews and its cache, specified by          *)
(* ScorerSpec. One caller uses the instance and awaits each call before    *)
(* the next, as scoreBatch and the news tools do.                          *)

\* scorings one instance makes
MaxScorings == 3

\* newsItem.title of the items scored, as tokens
Titles == {<<"ZK">>, <<" ", "zk">>, <<"GDPR">>}

\* result.score of the JSON the model answers with
Scores == {"10", "90"}

\* What makes a scoring fail: the request is rejected, or the text of the
\* answer is not JSON (JSON.parse throws a SyntaxError, rethrown as an Error)
ScoringFailures == {"request failed", "Failed to parse AI response as JSON"}

\* title.toLowerCase(), token by token
LowerCaseText(text) == [i \in 1..Len(text) |-> ToLowerCase(text[i])]

\* Variant: the key is the title as given
CacheKey_Raw(title) == Spell(title)

\* const cacheKey = title.toLowerCase().trim()
CacheKey(title) == Spell(Trim(LowerCaseText(title)))

\* const scored = { ...result, newsItem: { title, source },
\*                  scoredAt: Date.now() }
Scored(score, title, at) == [score |-> score, title |-> title, scoredAt |-> at]

\* new AIScorer(apiKey) has returned: the cache is an empty Map
ScorerInit ==
    /\ anthropicApiKey = "sk-ant-key"
    /\ LoopIdle
    /\ DEBUG = FALSE
    /\ HandlerIdle
    /\ PnpIdle
    /\ BashIdle
    /\ BatchIdle
    /\ ScorerIdle

\* What no step of AIScorer changes
scorerFrame == <<loopVars, anthropicApiKey, handlerVars, pnpVars, bashVars,
                 batchVars>>

\* scoreNews(newsItem) up to its await: a key the cache has is answered from
\* the cache; otherwise the model is asked
ScoreNews(title) ==
    /\ ~scoring.active
    /\ LET cacheKey == CacheKey(title) IN
       IF cacheKey \in DOMAIN cache
       THEN /\ scored' = [kind |-> "returned", title |-> title,
                          fromCache |-> TRUE, value |-> cache[cacheKey]]
            /\ UNCHANGED scoring
       ELSE /\ scoring' = [active |-> TRUE, title |-> title]
            /\ scored' = NoScored
    /\ UNCHANGED <<cache, scoreClock, scorerFrame>>

\* if (this.cache.has(cacheKey)) return this.cache.get(cacheKey)
ScoreFromCache ==
    \E title \in Titles : CacheKey(title) \in DOMAIN cache /\ ScoreNews(title)

\* await this.client.messages.create(...) is issued
ScoreRequested ==
    \E title \in Titles :
        CacheKey(title) \notin DOMAIN cache /\ ScoreNews(title)

\* The model answers with JSON: the result is cached with
\* this.cache.set(cacheKey, scored) and returned
ModelScores ==
    /\ scoring.active
    /\ scoreClock < MaxScorings
    /\ \E score \in Scores :
        LET result == Scored(score, scoring.title, scoreClock + 1)
            cacheKey == CacheKey(scoring.title)
        IN
        /\ cache' = [k \in DOMAIN cache \cup {cacheKey} |->
                        IF k = cacheKey THEN result ELSE cache[k]]
        /\ scored' = [kind |-> "returned", title |-> scoring.title,
                      fromCache |-> FALSE, value |-> result]
    /\ scoreClock' = scoreClock + 1
    /\ scoring' = NotScoring
    /\ UNCHANGED scorerFrame

\* The request fails or the answer does not parse: catch rethrows
ModelScoringFails ==
    /\ scoring.active
    /\ \E message \in ScoringFailures :
        scored' = [kind |-> "threw", title |-> scoring.title,
                   fromCache |-> FALSE,
                   value |-> Scored(message, scoring.title, 0)]
    /\ scoring' = NotScoring
    /\ UNCHANGED <<cache, scoreClock, scorerFrame>>

\* clearCache() { this.cache.clear(); }
ClearCache ==
    /\ ~scoring.active
    /\ cache # EmptyCache
    /\ cache' = EmptyCache
    /\ UNCHANGED <<scoring, scored, scoreClock, scorerFrame>>

ScorerNext ==
    \/ ScoreFromCache
    \/ ScoreRequested
    \/ ModelScores
    \/ ModelScoringFails
    \/ ClearCache

ScorerSpec == ScorerInit /\ [][ScorerNext]_vars

----------------------------------------------------------------------------
(* PrivacyOracleAgent.createBatchMarkets (agent.js), specified by          *)
(* BatchSpec. initialize() has resolved and generateMultipleMarkets has    *)
(* returned its ideas; createMarket is an input: it returns or throws.     *)

\* ideas one call generates
MaxIdeas == 3

\* What generateMultipleMarkets may return an idea to be
IdeaPool ==
    {[question |-> "Q1", category |-> "regulation"],
     [question |-> "Q2", category |-> "technology"]}

\* error.message of what createMarket throws
CreateErrors ==
    {"Market module not available. Ensure wallet is configured.",
     "insufficient funds"}

\* Variant: a failed creation leaves no result
FailureRecord_Dropped(batch, idea, message) == batch

\* catch: results.push({ success: false, question: idea.question,
\*                       error: error.message })
FailureRecord(batch, idea, message) ==
    Append(batch, [keys |-> {"success", "question", "error"},
                   success |-> FALSE, question |-> idea.question,
                   category |-> Undefined, error |-> message])

\* results.push({ ...result, category: idea.category }), result being what
\* createMarket returned: { success: true, signature, market, question,
\* durationDays, liquidity }
SuccessRecord(batch, idea) ==
    Append(batch, [keys |-> {"success", "signature", "market", "question",
                             "durationDays", "liquidity", "category"},
                   success |-> TRUE, question |-> idea.question,
                   category |-> idea.category, error |-> Undefined])

\* for (const idea of ideas): the loop awaits createMarket for the idea at
\* place i, and return results follows the last idea
AtIdea(list, i) == IF i <= Len(list) THEN "Creating" ELSE "Returned"

\* createBatchMarkets(count) has got its ideas and enters the loop
BatchInit ==
    /\ anthropicApiKey = Undefined
    /\ LoopIdle
    /\ DEBUG = FALSE
    /\ HandlerIdle
    /\ PnpIdle
    /\ BashIdle
    /\ ScorerIdle
    /\ \E count \in 0..MaxIdeas : ideas \in [1..count -> IdeaPool]
    /\ ideaIdx = 1
    /\ batchResults = <<>>
    /\ batchPc = AtIdea(ideas, 1)

\* What no step of createBatchMarkets changes
batchFrame == <<loopVars, anthropicApiKey, handlerVars, pnpVars, bashVars,
                scorerVars, ideas>>

\* createMarket resolves: the result is pushed with the idea's category and
\* the loop sleeps 2 s
MarketCreated ==
    /\ batchPc = "Creating"
    /\ batchResults' = SuccessRecord(batchResults, ideas[ideaIdx])
    /\ batchPc' = "Sleeping"
    /\ UNCHANGED <<ideaIdx, batchFrame>>

\* createMarket throws: the catch pushes the failure and the loop goes on
\* with the next idea
MarketFails ==
    /\ batchPc = "Creating"
    /\ \E message \in CreateErrors :
        batchResults' = FailureRecord(batchResults, ideas[ideaIdx], message)
    /\ ideaIdx' = ideaIdx + 1
    /\ batchPc' = AtIdea(ideas, ideaIdx + 1)
    /\ UNCHANGED batchFrame

\* await this.sleep(2000) resolves: the next idea
SleepElapsed ==
    /\ batchPc = "Sleeping"
    /\ ideaIdx' = ideaIdx + 1
    /\ batchPc' = AtIdea(ideas, ideaIdx + 1)
    /\ UNCHANGED <<batchResults, batchFrame>>

BatchNext ==
    \/ MarketCreated
    \/ MarketFails
    \/ SleepElapsed

BatchSpec == BatchInit /\ [][BatchNext]_vars

----------------------------------------------------------------------------
(* Helpers of the properties *)

\* The ids of the tool_use blocks of a content, in order
ToolUseIds(content) ==
    LET uses == SelectSeq(content, IsToolUse) IN
    [k \in 1..Len(uses) |-> uses[k].id]

\* The tool_use_ids of a content made of tool_result blocks, in order
ResultIds(content) == [k \in 1..Len(content) |-> content[k].tool_use_id]

\* The tool_use block of the response being dispatched that has this id
BlockOf(id) ==
    response.content[CHOOSE i \in 1..Len(response.content) :
        IsToolUse(response.content[i]) /\ response.content[i].id = id]

\* How many tool_result blocks of the history carry this id
ResultCount(id) ==
    Cardinality({p \in UNION {{<<m, n>> : n \in 1..Len(messages[m].content)} :
                                m \in 1..Len(messages)} :
        /\ messages[p[1]].content[p[2]].type = "tool_result"
        /\ messages[p[1]].content[p[2]].tool_use_id = id})

Last(seq) == seq[Len(seq)]

InDispatch == pc \in {"Dispatching", "ToolRunning"}

\* The number of tool_use blocks of the response before index i
UsesBefore(i) ==
    Cardinality({j \in 1..(i - 1) :
        j <= Len(response.content) /\ IsToolUse(response.content[j])})

----------------------------------------------------------------------------
(* C1..C10 *)

\* C1, first half: the user message appended after an assistant message whose
\* tools were dispatched holds exactly one tool_result per tool_use block of
\* that message, with the same ids
C1_DispatchedMatched ==
    \A i \in 1..(Len(messages) - 1) :
        (/\ messages[i].role = "assistant"
         /\ messages[i + 1].role = "user"
         /\ ~messages[i + 1].isString)
        => ResultIds(messages[i + 1].content) = ToolUseIds(messages[i].content)

\* C1: for every assistant message whose tools are dispatched, the user
\* message appended next holds exactly one tool_result per tool_use block,
\* with the same id; and at every model call each tool_use block already in
\* the history is matched by exactly one tool_result with its id.
C1_ToolUseMatchedAtEveryCall ==
    /\ C1_DispatchedMatched
    /\ pc = "AwaitingModel" =>
        \A i \in 1..Len(messages) :
            \A id \in {ToolUseIds(messages[i].content)[k] :
                        k \in 1..Len(ToolUseIds(messages[i].content))} :
                ResultCount(id) = 1

\* C2: the tools of one assistant message are executed one at a time in the
\* order of its tool_use blocks (an executor is started only when every
\* earlier tool_use block has its result), the results are kept in that order,
\* and the dispatch ends by appending them all as one user message, after
\* which, and only then, the model is called again; only the process ending
\* on an interrupt ends a dispatch in another way.
C2_SequentialInOrder ==
    /\ [](InDispatch =>
            /\ ResultIds(results)
                 = SubSeq(ToolUseIds(response.content), 1, Len(results))
            /\ pc = "Dispatching" => Len(results) = UsesBefore(blockIdx)
            /\ pc = "ToolRunning" =>
                /\ IsToolUse(response.content[running.index])
                /\ Len(results) = UsesBefore(running.index))
    /\ [][(InDispatch /\ pc' = "AwaitingModel") =>
            /\ Len(messages') = Len(messages) + 1
            /\ SubSeq(messages', 1, Len(messages)) = messages
            /\ Last(messages').role = "user"
            /\ ResultIds(Last(messages').content)
                 = ToolUseIds(response.content)]_vars
    /\ [][(InDispatch /\ ~InDispatch' /\ ~Sigint) =>
            pc' = "AwaitingModel"]_vars

\* C2 witness: the model is about to be called again after two tools of one
\* message were run and their results appended
C2_Witness ==
    /\ pc = "AwaitingModel"
    /\ Len(messages) >= 3
    /\ ~Last(messages).isString
    /\ Len(Last(messages).content) = 2

\* C3: after the finalized assistant message is appended, chat enters tool
\* dispatch if and only if the message holds a tool_use block, and returns to
\* Idle if and only if it holds none.
C3_DispatchIffToolUse ==
    [][(pc = "AwaitingModel" /\ Len(messages') = Len(messages) + 1) =>
        /\ Last(messages').role = "assistant"
        /\ pc' = "Dispatching" <=> HasToolUse(Last(messages').content)
        /\ pc' = "Idle" <=> ~HasToolUse(Last(messages').content)]_vars

\* C4: a model call that fails with status 429 is issued again with the
\* history of the failed call: nothing is appended, duplicated or removed
\* between the failed call and its retry.
C4_RetryKeepsHistory ==
    (failedCall.pending /\ pc \in {"Cooldown", "AwaitingModel"})
        => messages = failedCall.history

\* C4 witness: a retry is about to be issued in the middle of a turn, after
\* tool results were appended
C4_Witness ==
    /\ pc = "AwaitingModel"
    /\ failedCall.pending
    /\ Len(messages) >= 3
    /\ ~Last(messages).isString

\* C5: a rate-limited model call is retried a bounded number of times: a turn
\* that is waiting to retry eventually stops waiting for the model, by
\* success or by an error surfaced to the caller.
C5_RetriesEnd ==
    (pc = "Cooldown") ~> (pc \notin {"Cooldown", "AwaitingModel"})

\* C6: a model call that fails with anything other than a rate limit aborts
\* the turn and reaches run as a reported error: the history is left as it
\* is, the process is not terminated and run is back at its prompt.
C6_FailureIsReported ==
    [][(pc = "AwaitingModel" /\ pc' \notin {"AwaitingModel", "Cooldown"}
            /\ messages' = messages /\ ~Sigint) =>
        /\ pc' = "Idle"
        /\ reported' \in {e.message : e \in ProviderErrors}]_vars

\* C6 witness: after a reported failure aborted a turn (its user message is
\* followed by the next turn's), a later turn ran to completion
C6_Witness ==
    /\ pc = "Idle"
    /\ Len(messages) >= 3
    /\ \E i \in 1..(Len(messages) - 1) :
        messages[i].isString /\ messages[i + 1].isString
    /\ Last(messages).role = "assistant"
    /\ ~HasToolUse(Last(messages).content)

\* C7: a failing tool does not abort the turn: when an executor throws, the
\* tool_result of that tool_use is still added, carrying the error; the
\* dispatch goes on with the remaining tools and ends in another model call,
\* unless the user's interrupt ends the process first.
C7_ToolFailureIsLocal ==
    /\ [][ToolThrows =>
            /\ pc' = "Dispatching"
            /\ Len(results') = Len(results) + 1
            /\ Last(results').tool_use_id = response.content[running.index].id
            /\ "error" \in Last(results').content.keys
            /\ Last(results').content.error
                 \in ExecutorThrownMessages(
                        Lookup(response.content[running.index].name),
                        response.content[running.index].name)
            /\ blockIdx' = running.index + 1
            /\ messages' = messages /\ reported' = reported]_vars
    /\ (pc = "ToolRunning") ~> (pc \in {"AwaitingModel", "Exited"})

\* C7 witness: the model is called again with a results message whose first
\* result is the error of a thrown executor and whose second is a later tool's
C7_Witness ==
    /\ pc = "AwaitingModel"
    /\ ~Last(messages).isString
    /\ Len(Last(messages).content) = 2
    /\ "tool" \in Last(messages).content[1].content.keys
    /\ "_meta" \in Last(messages).content[2].content.keys

\* C8: when an executor throws or rejects, executeTool does not throw: it
\* returns a result whose error is the failure message and in which no
\* tool-specific field is populated.
C8_FailureResultShape ==
    [][ToolThrows =>
        \E message \in ExecutorThrownMessages(
                        Lookup(response.content[running.index].name),
                        response.content[running.index].name) :
            /\ results' = Append(results,
                    [type |-> "tool_result",
                     tool_use_id |-> response.content[running.index].id,
                     content |-> Last(results').content])
            /\ Last(results').content.error = message
            /\ "error" \in Last(results').content.keys
            /\ Last(results').content.keys \subseteq DispatcherKeys
            /\ "_meta" \notin Last(results').content.keys]_vars

\* C8 witness: a result of a registered tool whose executor threw
C8_Witness ==
    /\ pc = "Dispatching"
    /\ Len(results) >= 1
    /\ Last(results).content.error \in ExecutorErrorMessages
    /\ Last(results).content.tool \in ObjectKeys

\* C9: for every name that is not a registered tool, executeTool invokes no
\* executor and returns an error result whose list of tool names holds only
\* registered names.
C9_UnknownNameNeverInvoked ==
    InDispatch =>
        /\ \A k \in 1..Len(results) :
            LET block == BlockOf(results[k].tool_use_id) IN
            block.name \notin ObjectKeys =>
                /\ "error" \in results[k].content.keys
                /\ "available_tools" \in results[k].content.keys
                /\ results[k].content.available_tools \subseteq ObjectKeys
        /\ \A n \in 1..Len(notices) :
            notices[n][1] = "invoke" =>
                BlockOf(notices[n][2]).name \in ObjectKeys

\* C10: every result executeTool returns, for a success, a failed executor or
\* an unknown name, carries _meta with tool equal to the requested name and a
\* non-negative duration.
C10_MetaAlwaysPresent ==
    InDispatch =>
        \A k \in 1..Len(results) :
            /\ "_meta" \in results[k].content.keys
            /\ results[k].content._meta.tool
                 = BlockOf(results[k].tool_use_id).name
            /\ results[k].content._meta.duration_ms >= 0

----------------------------------------------------------------------------
(* C11..C20 *)

\* C11: every result executeTool returns has exactly one of an error string
\* and successful tool-specific fields: never both, never neither. The
\* tool-specific fields are the keys the dispatcher did not write itself.
C11_ErrorXorSuccessShape ==
    \A i \in 1..Len(results) :
        LET result == results[i].content
            hasError == "error" \in result.keys
            hasToolFields == result.keys \ DispatcherKeys # {}
        IN  hasError # hasToolFields

\* C12: a turn terminates. When the history ends with an assistant message
\* requesting tools and the matching tool-result message, and the model then
\* returns a plain message (no tool_use block), chat returns to Idle with
\* that message appended and nothing left to dispatch: no further tool cycle.
C12_PlainReplyEndsTurn ==
    [][(/\ pc = "AwaitingModel"
        /\ Len(messages) >= 2
        /\ ~Last(messages).isString
        /\ Last(messages).role = "user"
        /\ HasToolUse(messages[Len(messages) - 1].content)
        /\ Len(messages') = Len(messages) + 1
        /\ ~HasToolUse(Last(messages').content))
       => (/\ pc' = "Idle"
           /\ response' = NoResponse
           /\ SubSeq(messages', 1, Len(messages)) = messages)]_vars

\* A turn that used tools has ended on the model's plain reply
C12_Witness ==
    /\ pc = "Idle"
    /\ Len(messages) >= 4
    /\ Last(messages).role = "assistant"
    /\ ~HasToolUse(Last(messages).content)
    /\ messages[Len(messages) - 1].role = "user"
    /\ ~messages[Len(messages) - 1].isString
    /\ Len(messages[Len(messages) - 1].content) > 0
    /\ HasToolUse(messages[Len(messages) - 2].content)

\* C13: at most one turn is in flight: a turn starts (a user text is pushed)
\* only at the prompt, when the turn before has completed or aborted and
\* nothing of it is pending; while a turn is in flight the only changes of
\* the history are that turn's own assistant and tool-result messages.
C13_OneTurnInFlight ==
    /\ [][(Len(messages') = Len(messages) + 1 /\ Last(messages').isString)
            => (/\ pc = "Idle"
                /\ userMessage = <<>>
                /\ ~running.active
                /\ response = NoResponse
                /\ results = <<>>)]_vars
    /\ [][(pc # "Idle" /\ messages' # messages)
            => (/\ Len(messages') = Len(messages) + 1
                /\ ~Last(messages').isString
                /\ userMessage' \in {userMessage, <<>>})]_vars

\* A second turn is awaiting a tool after the first turn completed
C13_Witness ==
    /\ pc = "ToolRunning"
    /\ Len(messages) >= 4
    /\ messages[1].isString
    /\ messages[2].role = "assistant"
    /\ messages[3].isString
    /\ messages[3].text = userMessage

\* C14: history changes only by appending at the end: every step leaves it
\* as it is or adds one message after the messages it holds, except the
\* explicit reset clearHistory (/clear), which empties it.
C14_AppendOnly ==
    [][\/ messages' = messages
       \/ /\ Len(messages') = Len(messages) + 1
          /\ SubSeq(messages', 1, Len(messages)) = messages
       \/ /\ messages' = <<>>
          /\ pc = "Idle" /\ pc' = "Idle"
          /\ \E i \in 1..Len(notices') : notices'[i][1] = "clearHistory"
      ]_vars

\* After two completed turns the history holds both, in order
C14_Witness ==
    /\ pc = "Idle"
    /\ Len(messages) >= 4
    /\ messages[1].isString
    /\ messages[2].role = "assistant"
    /\ messages[3].isString
    /\ Last(messages).role = "assistant"

\* C15: the user message of a turn is in the history before the first model
\* call and at every model call of the turn: whenever a model call is
\* pending, the history holds the text chat was called with as a user
\* message, no later turn's text after it; the text is the typed line or
\* the prompt a slash command forwarded, never the slash text itself.
C15_UserMessageAtEveryCall ==
    pc \in {"AwaitingModel", "Cooldown"} =>
        /\ userMessage # <<>>
        /\ ~StartsWith(Trim(userMessage), "/")
        /\ \E i \in 1..Len(messages) :
            /\ messages[i] = StringMessage("user", userMessage)
            /\ \A j \in (i + 1)..Len(messages) : ~messages[j].isString

\* The second model call of a turn a slash command started with its prompt
C15_Witness ==
    /\ pc = "AwaitingModel"
    /\ userMessage = handleSlashCommand(<<"/", "create", " ", "Q">>).prompt
    /\ Len(messages) >= 3
    /\ Last(messages).role = "user"
    /\ ~Last(messages).isString

\* C19: for every line that begins with "/" and whose command word is not
\* recognized, the loop iteration prints the diagnostic and is over: the
\* history is left as it is (the slash text is not appended) and no model
\* call is made; run is back at its prompt.
C19_UnknownCommandHandled ==
    [][\A userInput \in Lines :
        (/\ StartsWith(userInput, "/")
         /\ ToLowerCase(CommandWord(userInput)) \notin RecognizedCommands
         /\ ReadLine(userInput))
        => (/\ handleSlashCommand(userInput).returns = "true"
            /\ notices' = <<<<"console.log", "Unknown command: /"
                                \o CommandWord(userInput)>>,
                            <<"console.log",
                              "Type /help for available commands.">>>>
            /\ messages' = messages
            /\ pc' = "Idle"
            /\ userMessage' = <<>>)]_vars

\* The diagnostic was printed at the prompt of a session with a history
C19_Witness ==
    /\ pc = "Idle"
    /\ Len(messages) >= 2
    /\ notices # <<>>
    /\ notices[1] = <<"console.log", "Unknown command: /frobnicate">>

C16_MalformedInputNotInvoked ==
    InDispatch =>
        \A i \in 1..Len(response.content) :
            LET block == response.content[i] IN
            (IsToolUse(block) /\ ~block.input.complete) =>
                /\ \A n \in 1..Len(notices) :
                    notices[n] # <<"invoke", block.id>>
                /\ \A k \in 1..Len(results) :
                    results[k].tool_use_id = block.id =>
                        "error" \in results[k].content.keys

\* The events handleStream has processed, the text fragments among them and
\* what it wrote to the terminal for them
ProcessedEvents == SubSeq(events, 1, eventIdx - 1)
IsTextDelta(event) ==
    event.type = "content_block_delta" /\ event.kind = "text_delta"
IsJsonDelta(event) ==
    event.type = "content_block_delta" /\ event.kind = "input_json_delta"
IsWrite(entry) == entry[1] = "write"
TextsOf(deltas) == [k \in 1..Len(deltas) |-> deltas[k].text]

----------------------------------------------------------------------------
(* C21..C30 *)

\* A line whose command word is "create" and that carries a question
IsCreateWithQuestion(userInput) ==
    LET trimmed == Trim(userInput) IN
    /\ StartsWith(trimmed, "/")
    /\ LET parts == Split(Tail(trimmed)) IN
        /\ ToLowerCase(Head(parts)) = "create"
        /\ Spell(Join(Tail(parts))) # ""

\* C21: for every line "/create <question>" with a non-empty question, the
\* loop iteration that reads it hands the create_market tool to the
\* dispatcher and is over: no model call is started, the prompt is shown
\* again and the history is as it was.
C21_CreateInvokesToolDirectly ==
    [][\A userInput \in Lines :
        (IsCreateWithQuestion(userInput) /\ ReadLine(userInput)) =>
            /\ pc' = "Idle"
            /\ messages' = messages
            /\ \E i \in 1..Len(notices') : notices'[i][1] = "executeTool"]_vars

\* C22: when handleSlashCommand returns a prompt for the line read, the loop
\* iteration is a step that reading the prompt itself as the line would
\* also be: the same message is pushed, the same model call is issued and
\* every variable of the loop gets the same value, so what follows is the
\* same; and no user message of the history is a slash text.
C22_ForwardedAsIfTyped ==
    /\ [](\A i \in 1..Len(messages) :
            messages[i].isString => ~StartsWith(Trim(messages[i].text), "/"))
    /\ [][\A userInput \in Lines :
            LET commandResult == handleSlashCommand(userInput) IN
            (commandResult.returns = "string" /\ ReadLine(userInput)) =>
                /\ ReadLine(commandResult.prompt)
                /\ Last(messages') = StringMessage("user", commandResult.prompt)]_vars

\* The first model call of a turn that a forwarded prompt started
C22_Witness ==
    /\ pc = "AwaitingModel"
    /\ \E userInput \in Lines :
        /\ handleSlashCommand(userInput).returns = "string"
        /\ messages = <<StringMessage("user",
                                      handleSlashCommand(userInput).prompt)>>

\* A line whose command word is help, h or ?
IsHelp(userInput) ==
    LET trimmed == Trim(userInput) IN
    /\ StartsWith(trimmed, "/")
    /\ ToLowerCase(CommandWord(trimmed)) \in {"help", "h", "?"}

\* C23: for every line "/help", "/h" or "/?", the loop iteration that reads
\* it prints the command list and nothing else and is over: the prompt is
\* shown again, the history is as it was, no model call is issued and no
\* tool is dispatched.
C23_HelpOnlyPrints ==
    [][\A userInput \in Lines :
        (IsHelp(userInput) /\ ReadLine(userInput)) =>
            /\ handleSlashCommand(userInput).returns = "true"
            /\ notices' = <<<<"printHelp", "">>>>
            /\ pc' = "Idle"
            /\ UNCHANGED <<messages, userMessage, failedCall, response,
                           blockIdx, results, running>>]_vars

\* The help was printed over a history that holds a finished turn
C23_Witness ==
    /\ pc = "Idle"
    /\ notices = <<<<"printHelp", "">>>>
    /\ Len(messages) >= 2

\* A line whose command word is clear or cls
IsClear(userInput) ==
    LET trimmed == Trim(userInput) IN
    /\ StartsWith(trimmed, "/")
    /\ ToLowerCase(CommandWord(trimmed)) \in {"clear", "cls"}

\* C24: for every line "/clear", the loop iteration that reads it empties
\* the history and is over (the command returns true), and the turn that
\* starts on an empty history issues its first model call with that turn's
\* user message as the only message.
C24_ClearEmptiesHistory ==
    /\ [][\A userInput \in Lines :
            (IsClear(userInput) /\ ReadLine(userInput)) =>
                /\ handleSlashCommand(userInput).returns = "true"
                /\ messages' = <<>>
                /\ pc' = "Idle"]_vars
    /\ [][(pc = "Idle" /\ messages = <<>> /\ pc' = "AwaitingModel") =>
            messages' = <<StringMessage("user", userMessage')>>]_vars

\* The prompt is shown again after a clear: the history is empty
C24_Witness ==
    /\ pc = "Idle"
    /\ messages = <<>>
    /\ \E i \in 1..Len(notices) : notices[i] = <<"clearHistory", "">>

\* C26: when config.anthropicApiKey is missing (not set, or empty), the
\* constructor throws and there is no agent: no line is read, no model call
\* is issued, no tool is dispatched, nothing is printed by the loop, and no
\* step of the loop is ever taken.
C26_MissingKeyFailsConstruction ==
    /\ [](anthropicApiKey \in {Undefined, ""} =>
            /\ pc = "ConstructorThrew"
            /\ messages = <<>>
            /\ userMessage = <<>>
            /\ notices = <<>>
            /\ response = NoResponse
            /\ results = <<>>
            /\ ~running.active)
    /\ [][anthropicApiKey \notin {Undefined, ""}]_vars

\* The constructor threw on a key that is not set
C26_Witness ==
    /\ anthropicApiKey = Undefined
    /\ pc = "ConstructorThrew"

\* C25: the process ends only by the user's exit: every step that ends it
\* is the exit command or the interrupt.
C25_OnlyUserExitTerminates ==
    [][(pc # "Exited" /\ pc' = "Exited") => (SlashExit \/ Sigint)]_vars

\* C25, amended: no step of a turn other than the interrupt ends the
\* process, whatever a tool or the model call does; every step that ends it
\* is the exit command, the interrupt or the end of input; and the
\* constructor's failure is met at the start only.
C25_FailuresDoNotTerminate ==
    /\ [][(pc \in {"AwaitingModel", "Cooldown", "Dispatching", "ToolRunning"}
            /\ ~Sigint) => pc' \notin {"Exited", "ConstructorThrew"}]_vars
    /\ [][(pc # "Exited" /\ pc' = "Exited") =>
            (SlashExit \/ Sigint \/ StdinClosed)]_vars
    /\ [][pc # "ConstructorThrew" => pc' # "ConstructorThrew"]_vars

\* The prompt is shown again after a turn in which a tool call ended in an
\* error result and a later model call failed
C25_Witness ==
    /\ pc = "Idle"
    /\ \E k \in 1..Len(notices) : notices[k][1] = "printError"
    /\ \E i \in 1..Len(messages) :
        /\ messages[i].role = "user"
        /\ ~messages[i].isString
        /\ \E k \in 1..Len(messages[i].content) :
            "error" \in messages[i].content[k].content.keys

Unique(names) ==
    \A i, j \in 1..Len(names) : names[i] = names[j] => i = j

\* C28: in each of the two registries, no two tool definitions of the tools
\* list have the same name, and every name of the list is an own key of the
\* executor map, which binds it to one executor function. The lists and
\* the maps are constants of the modules: they are the same in every state
\* of either agent, whatever it has done.
C28_ToolNamesUnique ==
    /\ pc # "ConstructorThrew" =>
        /\ Unique(tools)
        /\ \A i \in 1..Len(tools) :
            /\ tools[i] \in DOMAIN toolExecutors
            /\ Lookup(tools[i]) = [kind |-> "executor",
                                   fn |-> toolExecutors[tools[i]]]
    /\ agentPc # "Exited" =>
        /\ Unique(tools_pnpfucius)
        /\ \A i \in 1..Len(tools_pnpfucius) :
            /\ tools_pnpfucius[i] \in DOMAIN toolExecutors_pnpfucius
            /\ Lookup_pnpfucius(tools_pnpfucius[i])
                 = [kind |-> "executor",
                    fn |-> toolExecutors_pnpfucius[tools_pnpfucius[i]]]

\* An executor of the list is running for the second tool of a message
C28_Witness ==
    /\ pc = "ToolRunning"
    /\ running.index = 2
    /\ \E i \in 1..Len(tools) : response.content[running.index].name = tools[i]

BlockInHand ==
    IF running.active THEN response.content[running.index]
    ELSE response.content[NextToolUse(response.content, blockIdx)]

\* C30: every tool the loop dispatches gets a starting notice before its
\* executor is called, and a done or errored notice once it has completed,
\* before the next tool of the same message is started
C30_NoticesBracketExecution ==
    /\ [][StartTool =>
            \E n \in 1..Len(notices') :
                /\ n > Len(notices)
                /\ notices'[n] = <<"executing", BlockInHand.id>>
                /\ \A m \in 1..n :
                    notices'[m] # <<"invoke", BlockInHand.id>>]_vars
    /\ [][(StartTool \/ ToolReturns \/ ToolThrows) /\ pc' = "Dispatching" =>
            Last(notices') \in {<<"done", BlockInHand.id>>,
                                <<"error", BlockInHand.id>>}]_vars

----------------------------------------------------------------------------
(* C31..C38 *)

\* C31: whenever chat has a model call under way, the roles of the history
\* it was issued with alternate user, assistant, user, ..., from a first
\* user message to a last user message
C31_RolesAlternateAtModelCall ==
    pc = "AwaitingModel" =>
        /\ messages # <<>>
        /\ \A i \in 1..Len(messages) :
            messages[i].role = IF i % 2 = 1 THEN "user" ELSE "assistant"
        /\ messages[Len(messages)].role = "user"

\* C32: the input a PNPFUCIUS slash command hands to a tool holds every
\* member the tool's input schema requires, under the name the tool's
\* executor reads
C32_CommandInputMeetsSchema ==
    toolCall.active =>
        /\ Required_pnpfucius(toolCall.name) \subseteq Members(toolCall.input)
        /\ Reads_pnpfucius(toolCall.name) \subseteq Members(toolCall.input)

\* The set of the elements of a sequence
Range(seq) == {seq[i] : i \in 1..Len(seq)}

CommandOf(userInput) == ToLowerCase(Head(Split(Tail(Trim(userInput)))))
ArgsOf(userInput) == Tail(Split(Tail(Trim(userInput))))

\* The PNPFUCIUS commands that call a tool themselves
DirectCommands ==
    {"discover", "explore", "markets", "create", "p2p", "odds", "info",
     "buy", "sell", "prices", "price", "balance", "balances", "oracle",
     "criteria", "settlement", "resolve", "settle", "redeem", "refund",
     "pnp"}

IsDirectCommand(userInput) ==
    /\ ~Blank(userInput)
    /\ StartsWith(Trim(userInput), "/")
    /\ CommandOf(userInput) \in DirectCommands

\* A required argument of the command is not there, or an argument that
\* stands for a number is not a numeral
MissingOrMalformed(userInput) ==
    LET command == CommandOf(userInput)
        args == ArgsOf(userInput)
    IN
    CASE command \in {"buy", "sell"} ->
            Len(args) < 3 \/ ParseNumber(args[3]) = "NaN"
      [] command = "odds" -> Len(args) < 2 \/ ParseNumber(args[1]) = "NaN"
      [] command = "settle" -> Len(args) < 2
      [] command \in {"discover", "explore", "markets", "pnp"} -> FALSE
      [] OTHER -> args = <<>>

\* C34: a PNPFUCIUS command that calls a tool itself is always handled and
\* calls at most one tool for a line; when a required argument is missing
\* or malformed it calls no tool
C34_MalformedCommandCallsNoTool ==
    [][\A userInput \in Lines_pnpfucius :
        (IsDirectCommand(userInput) /\ PnpReadLine(userInput)) =>
            /\ handleSlashCommand_pnpfucius(userInput).returns = "true"
            /\ Cardinality({n \in 1..Len(printed') :
                                printed'[n][1] = "tool"}) <= 1
            /\ MissingOrMalformed(userInput) =>
                /\ ~toolCall'.active
                /\ \A n \in 1..Len(printed') : printed'[n][1] # "tool"]_vars

\* C35: the first of close, error and timer expiry to occur settles the call
\* with its own result, and nothing that occurs afterwards (the timer firing
\* on a child that has closed, the close of a child the timer killed or
\* that failed to spawn, output still arriving) changes what was settled
C35_FirstEventFixesResult ==
    /\ [][settled.state = "resolved" => settled' = settled]_vars
    /\ [][(settled.state = "pending" /\ ProcClose) =>
            /\ settled'.state = "resolved"
            /\ "exit_code" \in settled'.value.keys
            /\ settled'.value.stdout = Trim(procStdout)]_vars
    /\ [][(settled.state = "pending" /\ ProcError) =>
            /\ settled'.state = "resolved"
            /\ settled'.value.error \in SpawnErrors]_vars
    /\ [][(settled.state = "pending" /\ TimerFires) =>
            /\ settled'.state = "resolved"
            /\ settled'.value.error = "Command timed out"]_vars

\* The child closed first, with output, and the timer fired afterwards: the
\* call keeps the result of the close
C35_Witness ==
    /\ proc = [state |-> "closed", signalled |-> FALSE]
    /\ timer.state = "fired"
    /\ settled.state = "resolved"
    /\ "exit_code" \in settled.value.keys
    /\ settled.value.stdout = <<"out">>
    /\ settled.value.error = Undefined

\* A line of nothing but white space, the empty line included
WhitespaceOnly(userInput) == \A i \in 1..Len(userInput) : userInput[i] = " "

\* C36: a blank or whitespace-only line is ignored by run: the history is
\* as it was, nothing is printed or called on its account (the slash
\* command handler is not consulted), no model call is issued, no tool is
\* started, and the loop is at its prompt again
C36_BlankLineIgnored ==
    [][\A userInput \in Lines :
        (WhitespaceOnly(userInput) /\ ReadLine(userInput)) =>
            /\ messages' = messages
            /\ notices' = notices
            /\ reported' = reported
            /\ pc' = "Idle"
            /\ ~running'.active
            /\ results' = results]_vars

\* The loop is at its prompt in the middle of a conversation and the line
\* it reads may be blank
C36_Witness ==
    /\ pc = "Idle"
    /\ Len(messages) >= 2
    /\ notices # <<>>
    /\ ENABLED BlankInput
    /\ \E userInput \in Lines : WhitespaceOnly(userInput) /\ Blank(userInput)

\* Two titles with the same lower-cased, trimmed text
SameKey(title, other) ==
    Trim(LowerCaseText(title)) = Trim(LowerCaseText(other))

\* The results the instance holds for a title: those of the successful
\* scorings of a title with the same key, since the cache was last cleared
HeldIn(map, title) ==
    {map[k] : k \in {j \in DOMAIN map : SameKey(map[j].title, title)}}
Held(title) == HeldIn(cache, title)

C38_OneResultPerIdea ==
    /\ [](batchPc = "Returned" =>
            /\ Len(batchResults) = Len(ideas)
            /\ \A i \in 1..Len(ideas) :
                /\ batchResults[i].question = ideas[i].question
                /\ \/ /\ batchResults[i].success
                      /\ batchResults[i].category = ideas[i].category
                   \/ /\ ~batchResults[i].success
                      /\ "error" \in batchResults[i].keys
                      /\ batchResults[i].error \in CreateErrors)
    /\ [][MarketFails =>
            /\ Len(batchResults') = Len(batchResults) + 1
            /\ ~Last(batchResults').success
            /\ Last(batchResults').question = ideas[ideaIdx].question
            /\ ideaIdx < Len(ideas) =>
                (batchPc' = "Creating" /\ ideaIdx' = ideaIdx + 1)]_vars

\* A batch of three has returned: the first creation failed and the two
\* after it were made
C38_Witness ==
    /\ batchPc = "Returned"
    /\ Len(ideas) = 3
    /\ Len(batchResults) = 3
    /\ ~batchResults[1].success
    /\ batchResults[2].success
    /\ batchResults[3].success

====
